---- MODULE Spec2Model ----
(***************************************************************************)
(* A model of the contact/LinkedIn-profile matching core of                *)
(* phone-to-linkedin: the string similarity primitives and attribute       *)
(* matchers of src/matching/fuzzy.ts, the scoring engine, confidence       *)
(* classifier and facade of the ContactMatcher class, and the matching     *)
(* configuration of src/matching/config.ts.                                *)
(*                                                                         *)
(* Strings are sequences of one-character strings.  Numbers are exact      *)
(* rationals <<n, d>> with d > 0 in lowest terms; the program computes     *)
(* with IEEE doubles, which the model idealises to exact arithmetic.       *)
(***************************************************************************)
EXTENDS Integers, Sequences, FiniteSets, TLC

(***************************************************************************)
(* Exact rational arithmetic (the model's stand-in for JavaScript numbers) *)
(***************************************************************************)
Abs(n) == IF n < 0 THEN -n ELSE n

Min2(a, b) == IF a <= b THEN a ELSE b

Max2(a, b) == IF a >= b THEN a ELSE b

RECURSIVE Gcd(_, _)
Gcd(a, b) == IF b = 0 THEN a ELSE Gcd(b, a % b)

\* n/d in lowest terms with a positive denominator
Rat(n, d) ==
  LET g == Gcd(Abs(n), Abs(d))
      s == IF d < 0 THEN -1 ELSE 1
  IN  <<(s * n) \div g, (s * d) \div g>>

RInt(n) == <<n, 1>>

Zero == <<0, 1>>

One == <<1, 1>>

RAdd(a, b) ==
  LET g == Gcd(a[2], b[2])
      l == (a[2] \div g) * b[2]
  IN  Rat(a[1] * (l \div a[2]) + b[1] * (l \div b[2]), l)

RNeg(a) == <<-a[1], a[2]>>

RSub(a, b) == RAdd(a, RNeg(b))

RMul(a, b) ==
  LET g1 == Gcd(Abs(a[1]), b[2])
      g2 == Gcd(Abs(b[1]), a[2])
      h1 == IF g1 = 0 THEN 1 ELSE g1
      h2 == IF g2 = 0 THEN 1 ELSE g2
  IN  Rat((a[1] \div h1) * (b[1] \div h2), (a[2] \div h2) * (b[2] \div h1))

RLt(a, b) == a[1] * b[2] < b[1] * a[2]

RLe(a, b) == a[1] * b[2] <= b[1] * a[2]

RGe(a, b) == a[1] * b[2] >= b[1] * a[2]

RGt(a, b) == a[1] * b[2] > b[1] * a[2]

\* Math.max over a non-empty set of numbers
RMaxOf(S) == CHOOSE m \in S : \A o \in S : m[1] * o[2] >= o[1] * m[2]

\* Math.round: the nearest integer, a tie going towards +Infinity
MathRound(a) == (2 * a[1] + a[2]) \div (2 * a[2])

(***************************************************************************)
(* Strings                                                                 *)
(***************************************************************************)
\* the lower-case letter of each upper-case letter
CaseMap ==
  [c \in {"A", "B", "C", "D", "E", "F", "G", "H", "I", "J", "K", "L", "M",
          "N", "O", "P", "Q", "R", "S", "T", "U", "V", "W", "X", "Y", "Z"} |->
     CASE c = "A" -> "a" [] c = "B" -> "b" [] c = "C" -> "c" [] c = "D" -> "d"
       [] c = "E" -> "e" [] c = "F" -> "f" [] c = "G" -> "g" [] c = "H" -> "h"
       [] c = "I" -> "i" [] c = "J" -> "j" [] c = "K" -> "k" [] c = "L" -> "l"
       [] c = "M" -> "m" [] c = "N" -> "n" [] c = "O" -> "o" [] c = "P" -> "p"
       [] c = "Q" -> "q" [] c = "R" -> "r" [] c = "S" -> "s" [] c = "T" -> "t"
       [] c = "U" -> "u" [] c = "V" -> "v" [] c = "W" -> "w" [] c = "X" -> "x"
       [] c = "Y" -> "y" [] c = "Z" -> "z"]

\* the characters of the regular expression class \w
WordChars ==
  {"a", "b", "c", "d", "e", "f", "g", "h", "i", "j", "k", "l", "m",
   "n", "o", "p", "q", "r", "s", "t", "u", "v", "w", "x", "y", "z",
   "A", "B", "C", "D", "E", "F", "G", "H", "I", "J", "K", "L", "M",
   "N", "O", "P", "Q", "R", "S", "T", "U", "V", "W", "X", "Y", "Z",
   "0", "1", "2", "3", "4", "5", "6", "7", "8", "9", "_"}

LowerChar(c) == IF c \in DOMAIN CaseMap THEN CaseMap[c] ELSE c

\* the array holding the values of f at 1, 2, ... in order
AsArray(f) == <<>> \o f

\* the least element of a non-empty set of integers
Least(S) == CHOOSE c \in S : \A o \in S : c <= o

\* the k-th element, in increasing order, of a set of integers
Nth(S, k) == CHOOSE x \in S : Cardinality({y \in S : y < x}) = k - 1

\* the characters of s at the positions in K, in order
KeepAt(s, K) == AsArray([k \in 1..Cardinality(K) |-> s[Nth(K, k)]])

\* String.prototype.toLowerCase
toLowerCase(s) == AsArray([i \in 1..Len(s) |-> LowerChar(s[i])])

\* the regular expression class \s, over the model's alphabet
IsSpace(c) == c = " "

IsWordChar(c) == c \in WordChars

\* the positions of s that hold something other than white space
Inked(s) == {i \in 1..Len(s) : ~IsSpace(s[i])}

TrimLeft(s) == SubSeq(s, Least(Inked(s) \cup {Len(s) + 1}), Len(s))

TrimRight(s) == SubSeq(s, 1, Len(s) + 1 - Least({Len(s) + 1 - i : i \in Inked(s) \cup {0}}))

\* String.prototype.trim
trim(s) == TrimRight(TrimLeft(s))

\* does t occur in s at position i (1-based)
OccursAt(s, t, i) ==
  /\ i >= 1
  /\ i + Len(t) - 1 <= Len(s)
  /\ SubSeq(s, i, i + Len(t) - 1) = t

\* String.prototype.includes
includes(s, t) == \E i \in 1..(Len(s) - Len(t) + 1) : OccursAt(s, t, i)

\* the pieces of s between its separators, each separator reaching from a
\* position of starts to the position of ends that follows it
PiecesBetween(s, starts, ends) ==
  AsArray([k \in 1..(Cardinality(starts) + 1) |->
             SubSeq(s,
                    IF k = 1 THEN 1 ELSE Nth(ends, k - 1) + 1,
                    IF k = Cardinality(starts) + 1 THEN Len(s)
                    ELSE Nth(starts, k) - 1)])

\* where the maximal runs of white space of s start
SpaceStarts(s) ==
  {i \in 1..Len(s) : IsSpace(s[i]) /\ (i = 1 \/ ~IsSpace(s[i - 1]))}

\* where the maximal runs of white space of s end
SpaceEnds(s) ==
  {i \in 1..Len(s) : IsSpace(s[i]) /\ (i = Len(s) \/ ~IsSpace(s[i + 1]))}

\* s.split(/\s+/): the pieces between maximal runs of white space; a run at
\* either end leaves an empty piece there, and "" splits to [""]
SplitWs(s) == PiecesBetween(s, SpaceStarts(s), SpaceEnds(s))

RECURSIVE JoinSp(_)
\* parts.join(' ')
JoinSp(parts) ==
  IF parts = <<>> THEN <<>>
  ELSE IF Len(parts) = 1 THEN parts[1]
       ELSE parts[1] \o <<" ">> \o JoinSp(Tail(parts))

\* s with every character of cs removed
RemoveChars(s, cs) == KeepAt(s, {i \in 1..Len(s) : s[i] \notin cs})

\* s.replace(/\s+/g, ' '): each maximal run of white space becomes one space
CollapseWs(s) ==
  KeepAt([i \in 1..Len(s) |-> IF IsSpace(s[i]) THEN " " ELSE s[i]],
         Inked(s) \cup SpaceStarts(s))

\* s.replace(/&amp;/g, '&'): an occurrence keeps its first character, and no
\* two occurrences overlap
DecodeAmpersand(s) ==
  KeepAt(s, {i \in 1..Len(s) :
               \A p \in (i - 4)..(i - 1) :
                 ~OccursAt(s, <<"&", "a", "m", "p", ";">>, p)})

(***************************************************************************)
(* Similarity primitives (fuzzy.ts)                                        *)
(***************************************************************************)
\* the positions of s1 flagged in s1Matches, given the matched pairs
Flagged1(pairs) == {p[1] : p \in pairs}

\* the positions of s2 flagged in s2Matches, given the matched pairs
Flagged2(pairs) == {p[2] : p \in pairs}

\* the positions of s2 the character s1[i] may be matched with: in the
\* window around i, not yet flagged in s2Matches, holding s1[i]
JaroCandidates(s1, s2, i, pairs, matchDistance) ==
  {j \in Max2(1, i - matchDistance)..Min2(i + matchDistance, Len(s2)) :
     j \notin Flagged2(pairs) /\ s1[i] = s2[j]}

RECURSIVE JaroFindMatches(_, _, _, _)
\* the matching loop of jaroSimilarity from position i of s1 on: pairs holds
\* each matched position of s1 with the position of s2 it was matched with
JaroFindMatches(s1, s2, i, pairs) ==
  IF i > Len(s1) THEN pairs
  ELSE IF JaroCandidates(s1, s2, i, pairs, (Max2(Len(s1), Len(s2)) \div 2) - 1) = {}
       THEN JaroFindMatches(s1, s2, i + 1, pairs)
       ELSE JaroFindMatches(s1, s2, i + 1,
              pairs \cup {<<i, Least(JaroCandidates(s1, s2, i, pairs,
                                       (Max2(Len(s1), Len(s2)) \div 2) - 1))>>})

\* the transposition loop of jaroSimilarity over the matched characters of
\* s1 (a) and of s2 (b), each in its own order
Transpositions(a, b) == Cardinality({k \in 1..Len(a) : a[k] # b[k]})

\* (matches/len1 + matches/len2 + (matches - transpositions/2)/matches) / 3
JaroFormula(len1, len2, matches, transpositions) ==
  IF matches = 0 THEN Zero
  ELSE RMul(RAdd(RAdd(Rat(matches, len1), Rat(matches, len2)),
                 Rat(2 * matches - transpositions, 2 * matches)),
            <<1, 3>>)

JaroFromMatches(s1, s2, pairs) ==
  JaroFormula(Len(s1), Len(s2), Cardinality(pairs),
              Transpositions(KeepAt(s1, Flagged1(pairs)), KeepAt(s2, Flagged2(pairs))))

jaroSimilarity(s1, s2) ==
  IF Len(s1) = 0 /\ Len(s2) = 0 THEN One
  ELSE IF Len(s1) = 0 \/ Len(s2) = 0 THEN Zero
  ELSE JaroFromMatches(s1, s2, JaroFindMatches(s1, s2, 1, {}))

\* the prefix loop of jaroWinklerSimilarity: the length of the common
\* prefix, up to maxPrefix
CommonPrefix(s1, s2, maxPrefix) ==
  Cardinality({i \in 1..maxPrefix : \A k \in 1..i : s1[k] = s2[k]})

\* the longest common prefix the Winkler modification counts
MaxPrefix == 4

\* jaro + prefix * p * (1 - jaro) with p = 0.1
WinklerBoost(jaro, prefix) ==
  Rat(10 * jaro[1] + prefix * (jaro[2] - jaro[1]), 10 * jaro[2])

\* jaroWinklerSimilarity on its lower-cased arguments
JaroWinklerLower(s1, s2) ==
  IF s1 = s2 THEN One
  ELSE IF Len(s1) = 0 \/ Len(s2) = 0 THEN Zero
  ELSE WinklerBoost(jaroSimilarity(s1, s2),
                    CommonPrefix(s1, s2, Min2(MaxPrefix, Min2(Len(s1), Len(s2)))))

jaroWinklerSimilarity(str1, str2) ==
  JaroWinklerLower(toLowerCase(str1), toLowerCase(str2))

\* the cost of reaching cell k of a row of the edit-distance table from the
\* row before it: a deletion, or a substitution of ch for b[k - 1]
FromAbove(prev, ch, b, k) ==
  IF k = 1 THEN prev[1] + 1
  ELSE Min2(prev[k] + 1, prev[k - 1] + (IF ch = b[k - 1] THEN 0 ELSE 1))

\* the row of the table for the prefix of a that ends in ch, prev being the
\* row before it: a cell is reached from above, or by insertions from a cell
\* to its left that was
LevRow(prev, ch, b) ==
  <<>> \o [j \in DOMAIN prev |->
             Least({FromAbove(prev, ch, b, k) + (j - k) : k \in 1..j})]

RECURSIVE LevRows(_, _, _)
\* row i of the edit-distance table of a and b
LevRows(a, b, i) ==
  IF i = 0 THEN <<>> \o [j \in 1..(Len(b) + 1) |-> j - 1]
  ELSE LevRow(LevRows(a, b, i - 1), a[i], b)

\* distance() of fastest-levenshtein: the Levenshtein edit distance
distance(a, b) == LevRows(a, b, Len(a))[Len(b) + 1]

levenshteinSimilarity(str1, str2) ==
  IF Max2(Len(str1), Len(str2)) = 0 THEN One
  ELSE Rat(Max2(Len(str1), Len(str2))
             - distance(toLowerCase(str1), toLowerCase(str2)),
           Max2(Len(str1), Len(str2)))

stringSimilarity(str1, str2, algorithm) ==
  IF algorithm = "jaro-winkler" THEN jaroWinklerSimilarity(str1, str2)
  ELSE levenshteinSimilarity(str1, str2)

\* the elements of a sequence, as a set
Range(seq) == {seq[k] : k \in 1..Len(seq)}

(***************************************************************************)
(* Name matcher (fuzzy.ts)                                                 *)
(***************************************************************************)
\* each entry: <<formal name, nicknames>>
NAME_VARIATIONS == <<
  <<<<"w", "i", "l", "l", "i", "a", "m">>,
    <<<<"b", "i", "l", "l">>, <<"w", "i", "l", "l">>, <<"b", "i", "l", "l", "y">>,
      <<"w", "i", "l", "l", "y">>>>>>,
  <<<<"r", "o", "b", "e", "r", "t">>,
    <<<<"r", "o", "b">>, <<"b", "o", "b">>, <<"b", "o", "b", "b", "y">>,
      <<"r", "o", "b", "b", "i", "e">>>>>>,
  <<<<"r", "i", "c", "h", "a", "r", "d">>,
    <<<<"r", "i", "c", "k">>, <<"d", "i", "c", "k">>, <<"r", "i", "c", "h">>,
      <<"r", "i", "c", "k", "y">>>>>>,
  <<<<"j", "a", "m", "e", "s">>,
    <<<<"j", "i", "m">>, <<"j", "i", "m", "m", "y">>, <<"j", "a", "m", "i", "e">>>>>>,
  <<<<"j", "o", "h", "n">>,
    <<<<"j", "a", "c", "k">>, <<"j", "o", "h", "n", "n", "y">>>>>>,
  <<<<"m", "i", "c", "h", "a", "e", "l">>,
    <<<<"m", "i", "k", "e">>, <<"m", "i", "k", "e", "y">>, <<"m", "i", "c", "k">>>>>>,
  <<<<"d", "a", "v", "i", "d">>,
    <<<<"d", "a", "v", "e">>, <<"d", "a", "v", "e", "y">>>>>>,
  <<<<"j", "o", "s", "e", "p", "h">>,
    <<<<"j", "o", "e">>, <<"j", "o", "e", "y">>>>>>,
  <<<<"t", "h", "o", "m", "a", "s">>,
    <<<<"t", "o", "m">>, <<"t", "o", "m", "m", "y">>>>>>,
  <<<<"c", "h", "a", "r", "l", "e", "s">>,
    <<<<"c", "h", "a", "r", "l", "i", "e">>, <<"c", "h", "u", "c", "k">>>>>>,
  <<<<"c", "h", "r", "i", "s", "t", "o", "p", "h", "e", "r">>,
    <<<<"c", "h", "r", "i", "s">>>>>>,
  <<<<"d", "a", "n", "i", "e", "l">>,
    <<<<"d", "a", "n">>, <<"d", "a", "n", "n", "y">>>>>>,
  <<<<"m", "a", "t", "t", "h", "e", "w">>,
    <<<<"m", "a", "t", "t">>, <<"m", "a", "t", "t", "y">>>>>>,
  <<<<"a", "n", "t", "h", "o", "n", "y">>,
    <<<<"t", "o", "n", "y">>>>>>,
  <<<<"d", "o", "n", "a", "l", "d">>,
    <<<<"d", "o", "n">>, <<"d", "o", "n", "n", "y">>>>>>,
  <<<<"s", "t", "e", "v", "e", "n">>,
    <<<<"s", "t", "e", "v", "e">>>>>>,
  <<<<"a", "n", "d", "r", "e", "w">>,
    <<<<"a", "n", "d", "y">>, <<"d", "r", "e", "w">>>>>>,
  <<<<"j", "o", "s", "h", "u", "a">>,
    <<<<"j", "o", "s", "h">>>>>>,
  <<<<"k", "e", "n", "n", "e", "t", "h">>,
    <<<<"k", "e", "n">>, <<"k", "e", "n", "n", "y">>>>>>,
  <<<<"k", "e", "v", "i", "n">>,
    <<<<"k", "e", "v">>>>>>,
  <<<<"t", "i", "m", "o", "t", "h", "y">>,
    <<<<"t", "i", "m">>, <<"t", "i", "m", "m", "y">>>>>>,
  <<<<"j", "o", "n", "a", "t", "h", "a", "n">>,
    <<<<"j", "o", "n">>, <<"j", "o", "h", "n">>>>>>,
  <<<<"n", "i", "c", "h", "o", "l", "a", "s">>,
    <<<<"n", "i", "c", "k">>, <<"n", "i", "c", "k", "y">>>>>>,
  <<<<"a", "l", "e", "x", "a", "n", "d", "e", "r">>,
    <<<<"a", "l", "e", "x">>, <<"a", "l">>>>>>,
  <<<<"b", "e", "n", "j", "a", "m", "i", "n">>,
    <<<<"b", "e", "n">>, <<"b", "e", "n", "n", "y">>>>>>,
  <<<<"z", "a", "c", "h", "a", "r", "y">>,
    <<<<"z", "a", "c", "h">>, <<"z", "a", "c", "k">>>>>>,
  <<<<"e", "l", "i", "z", "a", "b", "e", "t", "h">>,
    <<<<"l", "i", "z">>, <<"b", "e", "t", "h">>, <<"l", "i", "z", "z", "i", "e">>,
      <<"b", "e", "t", "t", "y">>>>>>,
  <<<<"m", "a", "r", "g", "a", "r", "e", "t">>,
    <<<<"m", "a", "g", "g", "i", "e">>, <<"m", "e", "g">>, <<"p", "e", "g", "g", "y">>>>>>,
  <<<<"c", "a", "t", "h", "e", "r", "i", "n", "e">>,
    <<<<"c", "a", "t", "h", "y">>, <<"k", "a", "t", "e">>, <<"k", "a", "t", "i", "e">>>>>>,
  <<<<"s", "u", "s", "a", "n">>,
    <<<<"s", "u", "e">>, <<"s", "u", "s", "i", "e">>>>>>,
  <<<<"j", "e", "n", "n", "i", "f", "e", "r">>,
    <<<<"j", "e", "n">>, <<"j", "e", "n", "n", "y">>>>>>,
  <<<<"p", "a", "t", "r", "i", "c", "i", "a">>,
    <<<<"p", "a", "t">>, <<"p", "a", "t", "t", "y">>, <<"t", "r", "i", "c", "i", "a">>>>>>,
  <<<<"b", "a", "r", "b", "a", "r", "a">>,
    <<<<"b", "a", "r", "b">>, <<"b", "a", "r", "b", "i", "e">>>>>>,
  <<<<"j", "e", "s", "s", "i", "c", "a">>,
    <<<<"j", "e", "s", "s">>, <<"j", "e", "s", "s", "i", "e">>>>>>,
  <<<<"r", "e", "b", "e", "c", "c", "a">>,
    <<<<"b", "e", "c", "k", "y">>, <<"b", "e", "c", "c", "a">>>>>>,
  <<<<"s", "t", "e", "p", "h", "a", "n", "i", "e">>,
    <<<<"s", "t", "e", "p", "h">>>>>>,
  <<<<"k", "i", "m", "b", "e", "r", "l", "y">>,
    <<<<"k", "i", "m">>>>>>,
  <<<<"m", "i", "c", "h", "e", "l", "l", "e">>,
    <<<<"s", "h", "e", "l", "l", "y">>, <<"m", "i", "c", "h">>>>>>,
  <<<<"a", "m", "a", "n", "d", "a">>,
    <<<<"m", "a", "n", "d", "y">>>>>>,
  <<<<"c", "h", "r", "i", "s", "t", "i", "n", "a">>,
    <<<<"c", "h", "r", "i", "s">>, <<"t", "i", "n", "a">>,
      <<"c", "h", "r", "i", "s", "t", "i", "e">>>>>>,
  <<<<"s", "a", "m", "a", "n", "t", "h", "a">>,
    <<<<"s", "a", "m">>, <<"s", "a", "m", "m", "y">>>>>>
>>

\* [formal, ...nicknames] of a table entry, as a set
AllVariations(entry) == {entry[1]} \cup Range(entry[2])

\* areNameVariations on its lower-cased, trimmed arguments
AreVariationsNormalized(n1, n2) ==
  \/ n1 = n2
  \/ \E entry \in Range(NAME_VARIATIONS) :
       n1 \in AllVariations(entry) /\ n2 \in AllVariations(entry)

areNameVariations(name1, name2) ==
  AreVariationsNormalized(trim(toLowerCase(name1)), trim(toLowerCase(name2)))

\* the credit of the last-name-only strategy of matchNames
LastNameCredit == <<7, 10>>

\* the last-name similarity the last-name-only strategy asks for
LastNameBar == <<9, 10>>

\* strategy 3 of matchNames: does the last-name similarity earn the credit
LastNameMatchesWell(lastNameSimilarity) == RGt(lastNameSimilarity, LastNameBar)

Last(seq) == seq[Len(seq)]

\* the component match without the nickname table
ComponentMatch_NoNicknames(parts1, parts2, algorithm) ==
  RMul(RAdd(stringSimilarity(parts1[1], parts2[1], algorithm),
            stringSimilarity(Last(parts1), Last(parts2), algorithm)),
       <<1, 2>>)

\* strategy 2 of matchNames: the mean of the first-name and last-name matches
ComponentMatch(parts1, parts2, algorithm) ==
  RMul(RAdd(IF areNameVariations(parts1[1], parts2[1]) THEN One
            ELSE stringSimilarity(parts1[1], parts2[1], algorithm),
            stringSimilarity(Last(parts1), Last(parts2), algorithm)),
       <<1, 2>>)

\* what strategy 2 of matchNames offers to bestSimilarity
Strategy2(parts1, parts2, algorithm) ==
  IF Len(parts1) >= 2 /\ Len(parts2) >= 2
  THEN {ComponentMatch(parts1, parts2, algorithm)}
  ELSE {}

\* what strategy 3 of matchNames offers to bestSimilarity
Strategy3(parts1, parts2, algorithm) ==
  IF /\ Len(parts1) >= 1
     /\ Len(parts2) >= 1
     /\ LastNameMatchesWell(stringSimilarity(Last(parts1), Last(parts2), algorithm))
  THEN {LastNameCredit}
  ELSE {}

\* matchNames on its lower-cased, trimmed arguments: bestSimilarity starts
\* at 0 and each strategy raises it to what it offers, if that is more
MatchNormalizedNames(n1, n2, algorithm) ==
  IF n1 = n2 THEN One
  ELSE RMaxOf({Zero, stringSimilarity(n1, n2, algorithm)}
              \cup Strategy2(SplitWs(n1), SplitWs(n2), algorithm)
              \cup Strategy3(SplitWs(n1), SplitWs(n2), algorithm))

matchNames(name1, name2, algorithm) ==
  MatchNormalizedNames(trim(toLowerCase(name1)), trim(toLowerCase(name2)), algorithm)

(***************************************************************************)
(* Company matcher (fuzzy.ts)                                              *)
(***************************************************************************)
COMPANY_SUFFIXES == {
  <<"i", "n", "c">>, <<"i", "n", "c", "o", "r", "p", "o", "r", "a", "t", "e", "d">>,
  <<"l", "l", "c">>, <<"l", "t", "d">>, <<"l", "i", "m", "i", "t", "e", "d">>,
  <<"c", "o", "r", "p">>, <<"c", "o", "r", "p", "o", "r", "a", "t", "i", "o", "n">>,
  <<"c", "o", "m", "p", "a", "n", "y">>, <<"c", "o">>, <<"g", "r", "o", "u", "p">>,
  <<"h", "o", "l", "d", "i", "n", "g", "s">>,
  <<"e", "n", "t", "e", "r", "p", "r", "i", "s", "e", "s">>,
  <<"i", "n", "t", "e", "r", "n", "a", "t", "i", "o", "n", "a", "l">>,
  <<"g", "l", "o", "b", "a", "l">>,
  <<"t", "e", "c", "h", "n", "o", "l", "o", "g", "i", "e", "s">>, <<"t", "e", "c", "h">>,
  <<"s", "o", "l", "u", "t", "i", "o", "n", "s">>, <<"s", "e", "r", "v", "i", "c", "e", "s">>,
  <<"c", "o", "n", "s", "u", "l", "t", "i", "n", "g">>
}

\* each entry: <<abbreviation, full names>>
COMPANY_ABBREVIATIONS == <<
  <<<<"i", "b", "m">>,
    <<<<"i", "n", "t", "e", "r", "n", "a", "t", "i", "o", "n", "a", "l", " ", "b", "u", "s", "i", "n", "e", "s", "s", " ", "m", "a", "c", "h", "i", "n", "e", "s">>>>>>,
  <<<<"a", "w", "s">>,
    <<<<"a", "m", "a", "z", "o", "n", " ", "w", "e", "b", " ", "s", "e", "r", "v", "i", "c", "e", "s">>>>>>,
  <<<<"g", "e">>,
    <<<<"g", "e", "n", "e", "r", "a", "l", " ", "e", "l", "e", "c", "t", "r", "i", "c">>>>>>,
  <<<<"h", "p">>,
    <<<<"h", "e", "w", "l", "e", "t", "t", " ", "p", "a", "c", "k", "a", "r", "d">>,
      <<"h", "e", "w", "l", "e", "t", "t", "-", "p", "a", "c", "k", "a", "r", "d">>>>>>,
  <<<<"a", "t", "&", "t">>,
    <<<<"a", "t", "t">>, <<"a", "t", "&", "a", "m", "p", ";", "t">>>>>>,
  <<<<"p", "w", "c">>,
    <<<<"p", "r", "i", "c", "e", "w", "a", "t", "e", "r", "h", "o", "u", "s", "e", "c", "o", "o", "p", "e", "r", "s">>>>>>,
  <<<<"k", "p", "m", "g">>,
    <<<<"k", "l", "y", "n", "v", "e", "l", "d", " ", "p", "e", "a", "t", " ", "m", "a", "r", "w", "i", "c", "k", " ", "g", "o", "e", "r", "d", "e", "l", "e", "r">>>>>>,
  <<<<"p", "&", "g">>,
    <<<<"p", "r", "o", "c", "t", "e", "r", " ", "&", " ", "g", "a", "m", "b", "l", "e">>,
      <<"p", "r", "o", "c", "t", "e", "r", " ", "a", "n", "d", " ", "g", "a", "m", "b", "l", "e">>>>>>
>>

\* the maximal run of word characters of s around position i
WordAround(s, i) ==
  SubSeq(s,
         Least({p \in 1..i : \A q \in p..i : IsWordChar(s[q])}),
         i + Cardinality({p \in (i + 1)..Len(s) : \A q \in i..p : IsWordChar(s[q])}))

\* s.replace(/\b(inc|...|consulting)\b/g, ''): a match is a maximal run of
\* word characters that spells a suffix
RemoveSuffixWords(s) ==
  KeepAt(s, {i \in 1..Len(s) :
               ~IsWordChar(s[i]) \/ WordAround(s, i) \notin COMPANY_SUFFIXES})

normalizeCompanyName(company) ==
  trim(CollapseWs(trim(RemoveSuffixWords(
    CollapseWs(RemoveChars(
      DecodeAmpersand(trim(toLowerCase(company))),
      {".", ","}))))))

\* the similarity matchCompanies gives when one name contains the other
CompanyContainment == <<19, 20>>

\* an abbreviation table has an entry whose abbreviation is one of the two
\* strings and one of whose full names the other contains
AbbreviationHit(table, x, y) ==
  \E entry \in Range(table) :
    \/ x = entry[1] /\ \E fn \in Range(entry[2]) : includes(y, fn)
    \/ y = entry[1] /\ \E fn \in Range(entry[2]) : includes(x, fn)

\* matchCompanies on the normalized names, an empty name contained in none
MatchNormalizedCompanies_EmptyContainedInNone(c1, c2, algorithm) ==
  IF c1 = c2 THEN One
  ELSE IF AbbreviationHit(COMPANY_ABBREVIATIONS, c1, c2) THEN One
  ELSE IF c1 # <<>> /\ c2 # <<>> /\ (includes(c1, c2) \/ includes(c2, c1))
       THEN CompanyContainment
  ELSE stringSimilarity(c1, c2, algorithm)

\* matchCompanies on the normalized names
MatchNormalizedCompanies(c1, c2, algorithm) ==
  IF c1 = c2 THEN One
  ELSE IF AbbreviationHit(COMPANY_ABBREVIATIONS, c1, c2) THEN One
  ELSE IF includes(c1, c2) \/ includes(c2, c1) THEN CompanyContainment
  ELSE stringSimilarity(c1, c2, algorithm)

matchCompanies(company1, company2, algorithm) ==
  MatchNormalizedCompanies(normalizeCompanyName(company1),
                           normalizeCompanyName(company2), algorithm)

(***************************************************************************)
(* Location matcher (fuzzy.ts)                                             *)
(***************************************************************************)
\* each entry: <<abbreviation, full names>>
LOCATION_ABBREVIATIONS == <<
  <<<<"n", "y">>,
    <<<<"n", "e", "w", " ", "y", "o", "r", "k">>,
      <<"n", "e", "w", " ", "y", "o", "r", "k", " ", "c", "i", "t", "y">>, <<"n", "y", "c">>>>>>,
  <<<<"s", "f">>,
    <<<<"s", "a", "n", " ", "f", "r", "a", "n", "c", "i", "s", "c", "o">>,
      <<"s", "a", "n", " ", "f", "r", "a", "n">>>>>>,
  <<<<"l", "a">>,
    <<<<"l", "o", "s", " ", "a", "n", "g", "e", "l", "e", "s">>>>>>,
  <<<<"d", "c">>,
    <<<<"w", "a", "s", "h", "i", "n", "g", "t", "o", "n", " ", "d", "c">>,
      <<"w", "a", "s", "h", "i", "n", "g", "t", "o", "n", " ", "d", ".", "c", ".">>,
      <<"w", "a", "s", "h", "i", "n", "g", "t", "o", "n">>>>>>,
  <<<<"p", "h", "i", "l", "l", "y">>,
    <<<<"p", "h", "i", "l", "a", "d", "e", "l", "p", "h", "i", "a">>>>>>,
  <<<<"v", "e", "g", "a", "s">>,
    <<<<"l", "a", "s", " ", "v", "e", "g", "a", "s">>>>>>
>>

\* each entry: <<two-letter abbreviation, state name>>
US_STATE_ABBREVIATIONS == <<
  <<<<"a", "l">>, <<"a", "l", "a", "b", "a", "m", "a">>>>,
  <<<<"a", "k">>, <<"a", "l", "a", "s", "k", "a">>>>,
  <<<<"a", "z">>, <<"a", "r", "i", "z", "o", "n", "a">>>>,
  <<<<"a", "r">>, <<"a", "r", "k", "a", "n", "s", "a", "s">>>>,
  <<<<"c", "a">>, <<"c", "a", "l", "i", "f", "o", "r", "n", "i", "a">>>>,
  <<<<"c", "o">>, <<"c", "o", "l", "o", "r", "a", "d", "o">>>>,
  <<<<"c", "t">>, <<"c", "o", "n", "n", "e", "c", "t", "i", "c", "u", "t">>>>,
  <<<<"d", "e">>, <<"d", "e", "l", "a", "w", "a", "r", "e">>>>,
  <<<<"f", "l">>, <<"f", "l", "o", "r", "i", "d", "a">>>>,
  <<<<"g", "a">>, <<"g", "e", "o", "r", "g", "i", "a">>>>,
  <<<<"h", "i">>, <<"h", "a", "w", "a", "i", "i">>>>,
  <<<<"i", "d">>, <<"i", "d", "a", "h", "o">>>>,
  <<<<"i", "l">>, <<"i", "l", "l", "i", "n", "o", "i", "s">>>>,
  <<<<"i", "n">>, <<"i", "n", "d", "i", "a", "n", "a">>>>,
  <<<<"i", "a">>, <<"i", "o", "w", "a">>>>, <<<<"k", "s">>, <<"k", "a", "n", "s", "a", "s">>>>,
  <<<<"k", "y">>, <<"k", "e", "n", "t", "u", "c", "k", "y">>>>,
  <<<<"l", "a">>, <<"l", "o", "u", "i", "s", "i", "a", "n", "a">>>>,
  <<<<"m", "e">>, <<"m", "a", "i", "n", "e">>>>,
  <<<<"m", "d">>, <<"m", "a", "r", "y", "l", "a", "n", "d">>>>,
  <<<<"m", "a">>, <<"m", "a", "s", "s", "a", "c", "h", "u", "s", "e", "t", "t", "s">>>>,
  <<<<"m", "i">>, <<"m", "i", "c", "h", "i", "g", "a", "n">>>>,
  <<<<"m", "n">>, <<"m", "i", "n", "n", "e", "s", "o", "t", "a">>>>,
  <<<<"m", "s">>, <<"m", "i", "s", "s", "i", "s", "s", "i", "p", "p", "i">>>>,
  <<<<"m", "o">>, <<"m", "i", "s", "s", "o", "u", "r", "i">>>>,
  <<<<"m", "t">>, <<"m", "o", "n", "t", "a", "n", "a">>>>,
  <<<<"n", "e">>, <<"n", "e", "b", "r", "a", "s", "k", "a">>>>,
  <<<<"n", "v">>, <<"n", "e", "v", "a", "d", "a">>>>,
  <<<<"n", "h">>, <<"n", "e", "w", " ", "h", "a", "m", "p", "s", "h", "i", "r", "e">>>>,
  <<<<"n", "j">>, <<"n", "e", "w", " ", "j", "e", "r", "s", "e", "y">>>>,
  <<<<"n", "m">>, <<"n", "e", "w", " ", "m", "e", "x", "i", "c", "o">>>>,
  <<<<"n", "y">>, <<"n", "e", "w", " ", "y", "o", "r", "k">>>>,
  <<<<"n", "c">>, <<"n", "o", "r", "t", "h", " ", "c", "a", "r", "o", "l", "i", "n", "a">>>>,
  <<<<"n", "d">>, <<"n", "o", "r", "t", "h", " ", "d", "a", "k", "o", "t", "a">>>>,
  <<<<"o", "h">>, <<"o", "h", "i", "o">>>>,
  <<<<"o", "k">>, <<"o", "k", "l", "a", "h", "o", "m", "a">>>>,
  <<<<"o", "r">>, <<"o", "r", "e", "g", "o", "n">>>>,
  <<<<"p", "a">>, <<"p", "e", "n", "n", "s", "y", "l", "v", "a", "n", "i", "a">>>>,
  <<<<"r", "i">>, <<"r", "h", "o", "d", "e", " ", "i", "s", "l", "a", "n", "d">>>>,
  <<<<"s", "c">>, <<"s", "o", "u", "t", "h", " ", "c", "a", "r", "o", "l", "i", "n", "a">>>>,
  <<<<"s", "d">>, <<"s", "o", "u", "t", "h", " ", "d", "a", "k", "o", "t", "a">>>>,
  <<<<"t", "n">>, <<"t", "e", "n", "n", "e", "s", "s", "e", "e">>>>,
  <<<<"t", "x">>, <<"t", "e", "x", "a", "s">>>>, <<<<"u", "t">>, <<"u", "t", "a", "h">>>>,
  <<<<"v", "t">>, <<"v", "e", "r", "m", "o", "n", "t">>>>,
  <<<<"v", "a">>, <<"v", "i", "r", "g", "i", "n", "i", "a">>>>,
  <<<<"w", "a">>, <<"w", "a", "s", "h", "i", "n", "g", "t", "o", "n">>>>,
  <<<<"w", "v">>, <<"w", "e", "s", "t", " ", "v", "i", "r", "g", "i", "n", "i", "a">>>>,
  <<<<"w", "i">>, <<"w", "i", "s", "c", "o", "n", "s", "i", "n">>>>,
  <<<<"w", "y">>, <<"w", "y", "o", "m", "i", "n", "g">>>>
>>

\* s.replace(/\s+<word>$/, ''): a trailing word after white space goes, with
\* the white space before it
DropTrailingWord(s, word) ==
  IF /\ Len(s) - Len(word) >= 1
     /\ OccursAt(s, word, Len(s) - Len(word) + 1)
     /\ IsSpace(s[Len(s) - Len(word)])
  THEN TrimRight(SubSeq(s, 1, Len(s) - Len(word)))
  ELSE s

Metropolitan == <<"m", "e", "t", "r", "o", "p", "o", "l", "i", "t", "a", "n">>

\* s.replace(/\s+metro(politan)?$/, '')
DropTrailingMetro(s) ==
  IF DropTrailingWord(s, Metropolitan) # s THEN DropTrailingWord(s, Metropolitan)
  ELSE DropTrailingWord(s, <<"m", "e", "t", "r", "o">>)

Greater == <<"g", "r", "e", "a", "t", "e", "r">>

\* the positions where "greater" stands with white space after it
GreaterHits(s) ==
  {i \in 1..Len(s) :
     /\ OccursAt(s, Greater, i)
     /\ i + Len(Greater) <= Len(s)
     /\ IsSpace(s[i + Len(Greater)])}

\* s.replace(/greater\s+/, ''): the first "greater" that white space follows
\* goes, with that white space
DropGreater(s) ==
  IF GreaterHits(s) = {} THEN s
  ELSE SubSeq(s, 1, Least(GreaterHits(s)) - 1)
       \o TrimLeft(SubSeq(s, Least(GreaterHits(s)) + Len(Greater), Len(s)))

\* the state names that table entries give for a word (none or one)
StateNames(word) ==
  {entry[2] : entry \in {e \in Range(US_STATE_ABBREVIATIONS) : e[1] = word}}

\* US_STATE_ABBREVIATIONS[word] if there is one, else word
ExpandState(word) ==
  IF StateNames(word) = {} THEN word ELSE CHOOSE name \in StateNames(word) : TRUE

ExpandWords(words) == [k \in 1..Len(words) |-> ExpandState(words[k])]

normalizeLocation(location) ==
  trim(JoinSp(ExpandWords(SplitWs(
    DropGreater(DropTrailingMetro(DropTrailingWord(
      RemoveChars(trim(toLowerCase(location)), {".", ","}),
      <<"a", "r", "e", "a">>)))))))

\* the similarity matchLocations gives when one location contains the other
LocationContainment == <<9, 10>>

\* the similarity matchLocations gives for a shared significant word
LocationSharedPart == <<4, 5>>

\* a word of a location is significant when longer than this
SignificantPartLength == 3

\* do the two word lists share a significant word
SharePart(parts1, parts2) ==
  \E part1 \in Range(parts1), part2 \in Range(parts2) :
    /\ Len(part1) > SignificantPartLength
    /\ Len(part2) > SignificantPartLength
    /\ part1 = part2

\* matchLocations on the normalized locations
MatchNormalizedLocations(l1, l2, algorithm) ==
  IF l1 = l2 THEN One
  ELSE IF includes(l1, l2) \/ includes(l2, l1) THEN LocationContainment
  ELSE IF AbbreviationHit(LOCATION_ABBREVIATIONS, l1, l2) THEN One
  ELSE IF SharePart(SplitWs(l1), SplitWs(l2)) THEN LocationSharedPart
  ELSE stringSimilarity(l1, l2, algorithm)

matchLocations(location1, location2, algorithm) ==
  MatchNormalizedLocations(normalizeLocation(location1),
                           normalizeLocation(location2), algorithm)

(***************************************************************************)
(* Job-title matcher (fuzzy.ts)                                            *)
(***************************************************************************)
\* each entry: <<term, synonyms>>
JOB_TITLE_SYNONYMS == <<
  <<<<"e", "n", "g", "i", "n", "e", "e", "r">>,
    <<<<"d", "e", "v", "e", "l", "o", "p", "e", "r">>,
      <<"p", "r", "o", "g", "r", "a", "m", "m", "e", "r">>, <<"c", "o", "d", "e", "r">>,
      <<"s", "o", "f", "t", "w", "a", "r", "e", " ", "e", "n", "g", "i", "n", "e", "e", "r">>,
      <<"s", "w", "e">>>>>>,
  <<<<"m", "a", "n", "a", "g", "e", "r">>,
    <<<<"m", "g", "r">>, <<"l", "e", "a", "d">>, <<"d", "i", "r", "e", "c", "t", "o", "r">>>>>>,
  <<<<"s", "e", "n", "i", "o", "r">>,
    <<<<"s", "r">>, <<"p", "r", "i", "n", "c", "i", "p", "a", "l">>, <<"l", "e", "a", "d">>,
      <<"s", "t", "a", "f", "f">>>>>>,
  <<<<"j", "u", "n", "i", "o", "r">>,
    <<<<"j", "r">>, <<"a", "s", "s", "o", "c", "i", "a", "t", "e">>,
      <<"e", "n", "t", "r", "y", " ", "l", "e", "v", "e", "l">>>>>>,
  <<<<"v", "i", "c", "e", " ", "p", "r", "e", "s", "i", "d", "e", "n", "t">>,
    <<<<"v", "p">>, <<"v", ".", "p", ".">>>>>>,
  <<<<"c", "h", "i", "e", "f", " ", "e", "x", "e", "c", "u", "t", "i", "v", "e", " ", "o", "f", "f", "i", "c", "e", "r">>,
    <<<<"c", "e", "o">>, <<"c", ".", "e", ".", "o", ".">>>>>>,
  <<<<"c", "h", "i", "e", "f", " ", "t", "e", "c", "h", "n", "o", "l", "o", "g", "y", " ", "o", "f", "f", "i", "c", "e", "r">>,
    <<<<"c", "t", "o">>, <<"c", ".", "t", ".", "o", ".">>>>>>,
  <<<<"c", "h", "i", "e", "f", " ", "f", "i", "n", "a", "n", "c", "i", "a", "l", " ", "o", "f", "f", "i", "c", "e", "r">>,
    <<<<"c", "f", "o">>, <<"c", ".", "f", ".", "o", ".">>>>>>,
  <<<<"c", "h", "i", "e", "f", " ", "o", "p", "e", "r", "a", "t", "i", "n", "g", " ", "o", "f", "f", "i", "c", "e", "r">>,
    <<<<"c", "o", "o">>, <<"c", ".", "o", ".", "o", ".">>>>>>
>>

normalizeJobTitle(title) ==
  CollapseWs(RemoveChars(trim(toLowerCase(title)), {".", ","}))

\* the similarity matchJobTitles gives when one title contains the other
TitleContainment == <<9, 10>>

\* the similarity matchJobTitles gives for two terms of one synonym group
TitleSynonym == <<17, 20>>

\* some synonym group has a term in each of the two titles
ShareSynonymGroup(t1, t2) ==
  \E entry \in Range(JOB_TITLE_SYNONYMS) :
    /\ \E v \in AllVariations(entry) : includes(t1, v)
    /\ \E v \in AllVariations(entry) : includes(t2, v)

\* matchJobTitles on the normalized titles
MatchNormalizedTitles(t1, t2, algorithm) ==
  IF t1 = t2 THEN One
  ELSE IF includes(t1, t2) \/ includes(t2, t1) THEN TitleContainment
  ELSE IF ShareSynonymGroup(t1, t2) THEN TitleSynonym
  ELSE stringSimilarity(t1, t2, algorithm)

matchJobTitles(title1, title2, algorithm) ==
  MatchNormalizedTitles(normalizeJobTitle(title1), normalizeJobTitle(title2), algorithm)

(***************************************************************************)
(* Matching configuration (config.ts)                                      *)
(***************************************************************************)
MatchingConfig(email, name, company, location, jobTitle, algorithm, nameThreshold, companyThreshold) ==
  [weights |-> [email |-> email, name |-> name, company |-> company,
                location |-> location, jobTitle |-> jobTitle],
   algorithm |-> algorithm,
   nameThreshold |-> nameThreshold,
   companyThreshold |-> companyThreshold]

DEFAULT_MATCHING_CONFIG ==
  MatchingConfig(RInt(50), RInt(30), RInt(15), RInt(10), RInt(5),
                 "jaro-winkler", <<7, 10>>, <<3, 5>>)

(***************************************************************************)
(* Scoring engine (class ContactMatcher)                                   *)
(*                                                                         *)
(* An optional field that is absent is the empty string: undefined and ''  *)
(* are both falsy, and the matcher reads optional fields only through      *)
(* truthiness tests.                                                       *)
(***************************************************************************)
Truthy(s) == s # <<>>

\* where the character ch occurs in s
Occurrences(s, ch) == {i \in 1..Len(s) : s[i] = ch}

\* s.split(ch)
SplitOn(s, ch) == PiecesBetween(s, Occurrences(s, ch), Occurrences(s, ch))

\* the second piece, lower-cased, if there is one
SecondLowerCased(pieces) ==
  IF Len(pieces) >= 2 THEN toLowerCase(pieces[2]) ELSE <<>>

\* email.split('@')[1]?.toLowerCase(), undefined being the empty string
EmailDomain(email) == SecondLowerCased(SplitOn(email, "@"))

\* does some contact e-mail share the profile e-mail's domain
SharesDomain(contactEmails, profileDomain) ==
  \E k \in 1..Len(contactEmails) :
    /\ Truthy(EmailDomain(contactEmails[k]))
    /\ Truthy(profileDomain)
    /\ EmailDomain(contactEmails[k]) = profileDomain

\* emailMatchScore granting the domain credit on top of the exact-match
\* credit
emailMatchScore_Cumulative(contactEmails, profileEmail, config) ==
  RAdd(IF \E k \in 1..Len(contactEmails) :
            toLowerCase(contactEmails[k]) = toLowerCase(profileEmail)
       THEN config.weights.email ELSE Zero,
       IF SharesDomain(contactEmails, EmailDomain(profileEmail))
       THEN RMul(config.weights.email, <<1, 2>>) ELSE Zero)

\* emailMatchScore deciding on the first contact e-mail that matches at all,
\* exactly or by domain
emailMatchScore_FirstHit(contactEmails, profileEmail, config) ==
  IF ~SharesDomain(contactEmails, EmailDomain(profileEmail))
     /\ ~\E k \in 1..Len(contactEmails) :
           toLowerCase(contactEmails[k]) = toLowerCase(profileEmail)
  THEN Zero
  ELSE IF toLowerCase(contactEmails[
            Least({k \in 1..Len(contactEmails) :
                     \/ toLowerCase(contactEmails[k]) = toLowerCase(profileEmail)
                     \/ SharesDomain(<<contactEmails[k]>>, EmailDomain(profileEmail))})])
          = toLowerCase(profileEmail)
       THEN config.weights.email
       ELSE RMul(config.weights.email, <<1, 2>>)

\* emailMatchScore comparing domains as written, upper and lower case apart
emailMatchScore_CaseSensitiveDomain(contactEmails, profileEmail, config) ==
  IF \E k \in 1..Len(contactEmails) :
       toLowerCase(contactEmails[k]) = toLowerCase(profileEmail)
  THEN config.weights.email
  ELSE IF \E k \in 1..Len(contactEmails) :
            /\ Len(SplitOn(contactEmails[k], "@")) >= 2
            /\ Len(SplitOn(profileEmail, "@")) >= 2
            /\ SplitOn(contactEmails[k], "@")[2] # <<>>
            /\ SplitOn(contactEmails[k], "@")[2] = SplitOn(profileEmail, "@")[2]
       THEN RMul(config.weights.email, <<1, 2>>)
       ELSE Zero

emailMatchScore(contactEmails, profileEmail, config) ==
  IF \E k \in 1..Len(contactEmails) :
       toLowerCase(contactEmails[k]) = toLowerCase(profileEmail)
  THEN config.weights.email
  ELSE IF SharesDomain(contactEmails, EmailDomain(profileEmail))
       THEN RMul(config.weights.email, <<1, 2>>)
       ELSE Zero

\* the threshold applied as an exclusive bound
ApplyThreshold_Exclusive(similarity, threshold, maxScore) ==
  IF RLe(similarity, threshold) THEN Zero ELSE RMul(similarity, maxScore)

\* "Apply threshold" of nameMatchScore and companyMatchScore
ApplyThreshold(similarity, threshold, maxScore) ==
  IF RLt(similarity, threshold) THEN Zero ELSE RMul(similarity, maxScore)

nameMatchScore(name1, name2, config) ==
  IF ~Truthy(name1) \/ ~Truthy(name2) THEN Zero
  ELSE ApplyThreshold(matchNames(name1, name2, config.algorithm),
                      config.nameThreshold, config.weights.name)

companyMatchScore(company1, company2, config) ==
  IF ~Truthy(company1) \/ ~Truthy(company2) THEN Zero
  ELSE ApplyThreshold(matchCompanies(company1, company2, config.algorithm),
                      config.companyThreshold, config.weights.company)

\* locationMatchScore gated by the company threshold
locationMatchScore_Gated(location1, location2, config) ==
  IF ~Truthy(location1) \/ ~Truthy(location2) THEN Zero
  ELSE IF RLt(matchLocations(location1, location2, config.algorithm),
              config.companyThreshold)
       THEN Zero
       ELSE RMul(matchLocations(location1, location2, config.algorithm),
                 config.weights.location)

locationMatchScore(location1, location2, config) ==
  IF ~Truthy(location1) \/ ~Truthy(location2) THEN Zero
  ELSE RMul(matchLocations(location1, location2, config.algorithm),
            config.weights.location)

titleMatchScore(title, headline, config) ==
  IF ~Truthy(title) \/ ~Truthy(headline) THEN Zero
  ELSE RMul(matchJobTitles(title, headline, config.algorithm),
            config.weights.jobTitle)

\* the attribute matchers scoreMatch invokes for a pair (through the
\* component scorers), from its guards and the scorers' early returns
MatchersInvoked(contact, profile) ==
  (IF Truthy(contact.fullName) /\ Truthy(profile.name) THEN {"name"} ELSE {})
  \cup (IF Truthy(contact.company) /\ Truthy(profile.company) THEN {"company"} ELSE {})
  \cup (IF Truthy(contact.location) /\ Truthy(profile.location) THEN {"location"} ELSE {})
  \cup (IF Truthy(contact.jobTitle) /\ Truthy(profile.headline) THEN {"jobTitle"} ELSE {})

\* breakdown.total = Math.round(email + name + company + location + jobTitle)
TotalScore(email, name, company, location, jobTitle) ==
  MathRound(RAdd(RAdd(RAdd(RAdd(email, name), company), location), jobTitle))

ScoreBreakdown(email, name, company, location, jobTitle) ==
  [email |-> email, name |-> name, company |-> company,
   location |-> location, jobTitle |-> jobTitle,
   total |-> TotalScore(email, name, company, location, jobTitle)]

scoreMatch(contact, profile, config) ==
  ScoreBreakdown(
    IF Len(contact.emails) # 0 /\ Truthy(profile.email)
    THEN emailMatchScore(contact.emails, profile.email, config) ELSE Zero,
    nameMatchScore(contact.fullName, profile.name, config),
    IF Truthy(contact.company) /\ Truthy(profile.company)
    THEN companyMatchScore(contact.company, profile.company, config) ELSE Zero,
    IF Truthy(contact.location) /\ Truthy(profile.location)
    THEN locationMatchScore(contact.location, profile.location, config) ELSE Zero,
    IF Truthy(contact.jobTitle) /\ Truthy(profile.headline)
    THEN titleMatchScore(contact.jobTitle, profile.headline, config) ELSE Zero)

(***************************************************************************)
(* Confidence classifier and match reason composer                         *)
(***************************************************************************)
VeryHighScore == 80

HighScore == 60

MediumScore == 40

LowScore == 20

\* getConfidenceLevel with exclusive lower bounds
getConfidenceLevel_Exclusive(score) ==
  IF score > VeryHighScore THEN "Very High"
  ELSE IF score > HighScore THEN "High"
  ELSE IF score > MediumScore THEN "Medium"
  ELSE IF score > LowScore THEN "Low"
  ELSE "Very Low"

getConfidenceLevel(score) ==
  IF score >= VeryHighScore THEN "Very High"
  ELSE IF score >= HighScore THEN "High"
  ELSE IF score >= MediumScore THEN "Medium"
  ELSE IF score >= LowScore THEN "Low"
  ELSE "Very Low"

\* a reason string: the component it speaks of, its fixed wording, and the
\* numbers and strings interpolated into it, in order
Reason(component, template, numbers, strings) ==
  [component |-> component, template |-> template,
   numbers |-> numbers, strings |-> strings]

\* Math.round(similarity * 100)
Percentage(similarity) == MathRound(RMul(similarity, RInt(100)))

\* "Email match details"
EmailReasons(breakdown, config) ==
  IF ~RGt(breakdown.email, Zero) THEN <<>>
  ELSE IF RGe(breakdown.email, config.weights.email)
       THEN <<Reason("email", "Exact email match", <<MathRound(breakdown.email)>>, <<>>)>>
       ELSE <<Reason("email", "Same email domain", <<MathRound(breakdown.email)>>, <<>>)>>

\* parts1.length > 0 && parts2.length > 0 && areNameVariations(parts1[0], parts2[0])
HasVariation(parts1, parts2) ==
  /\ Len(parts1) > 0
  /\ Len(parts2) > 0
  /\ areNameVariations(parts1[1], parts2[1])

\* the name reason, given the recomputed similarity
NameReason(contact, profile, nameScore, nameSimilarity) ==
  IF RGe(nameSimilarity, <<19, 20>>)
  THEN Reason("name", "Exact name match", <<nameScore>>, <<>>)
  ELSE IF HasVariation(SplitWs(toLowerCase(contact.fullName)),
                       SplitWs(toLowerCase(profile.name)))
       THEN Reason("name", "Name variation match", <<nameScore>>,
                   <<contact.fullName, profile.name>>)
       ELSE Reason("name", "Similar name",
                   <<Percentage(nameSimilarity), nameScore>>, <<>>)

\* "Name match details"
NameReasons(contact, profile, breakdown, config) ==
  IF ~RGt(breakdown.name, Zero) THEN <<>>
  ELSE <<NameReason(contact, profile, MathRound(breakdown.name),
                    matchNames(contact.fullName, profile.name, config.algorithm))>>

\* the reason of a component worded "<exact>" from the similarity bar up and
\* "<similar> (n% match ...)" below it
GradedReason(component, exact, similar, bar, score, similarity, strings) ==
  IF RGe(similarity, bar)
  THEN Reason(component, exact, <<score>>, strings)
  ELSE Reason(component, similar, <<Percentage(similarity), score>>, <<>>)

\* "Company match details"
CompanyReasons(contact, profile, breakdown, config) ==
  IF ~RGt(breakdown.company, Zero) THEN <<>>
  ELSE <<GradedReason("company", "Company match", "Similar company", <<19, 20>>,
                      MathRound(breakdown.company),
                      matchCompanies(contact.company, profile.company, config.algorithm),
                      <<contact.company>>)>>

\* "Location match details"
LocationReasons(contact, profile, breakdown, config) ==
  IF ~RGt(breakdown.location, Zero) THEN <<>>
  ELSE <<GradedReason("location", "Location match", "Similar location", <<9, 10>>,
                      MathRound(breakdown.location),
                      matchLocations(contact.location, profile.location, config.algorithm),
                      <<contact.location>>)>>

\* "Job title match details"
TitleReasons(contact, profile, breakdown, config) ==
  IF ~RGt(breakdown.jobTitle, Zero) THEN <<>>
  ELSE <<GradedReason("jobTitle", "Job title match", "Similar job title", <<9, 10>>,
                      MathRound(breakdown.jobTitle),
                      matchJobTitles(contact.jobTitle, profile.headline, config.algorithm),
                      <<>>)>>

\* the placeholder chosen by the band of the total instead of by the
\* reasons found
WithSummary_ByBand(reasons, breakdown) ==
  IF breakdown.total >= LowScore
  THEN Append(reasons, Reason("summary", "Total Score", <<breakdown.total>>, <<>>))
  ELSE Append(reasons, Reason("placeholder",
                              "Low confidence match - minimal similarity found",
                              <<>>, <<>>))

\* "Add score breakdown summary"
WithSummary(reasons, breakdown) ==
  IF Len(reasons) > 0
  THEN Append(reasons, Reason("summary", "Total Score", <<breakdown.total>>, <<>>))
  ELSE <<Reason("placeholder", "Low confidence match - minimal similarity found",
                <<>>, <<>>)>>

\* getMatchReasons composing the name reason ahead of the e-mail reason
getMatchReasons_NameFirst(contact, profile, breakdown, config) ==
  WithSummary(NameReasons(contact, profile, breakdown, config)
              \o EmailReasons(breakdown, config)
              \o CompanyReasons(contact, profile, breakdown, config)
              \o LocationReasons(contact, profile, breakdown, config)
              \o TitleReasons(contact, profile, breakdown, config),
              breakdown)

getMatchReasons(contact, profile, breakdown, config) ==
  WithSummary(EmailReasons(breakdown, config)
              \o NameReasons(contact, profile, breakdown, config)
              \o CompanyReasons(contact, profile, breakdown, config)
              \o LocationReasons(contact, profile, breakdown, config)
              \o TitleReasons(contact, profile, breakdown, config),
              breakdown)

(***************************************************************************)
(* Matching facade: ContactMatcher.matchContact                            *)
(***************************************************************************)
\* one round of the loop of matchContact: the Match pushed for a profile,
\* with the breakdown it was made from and the matchers that were invoked
ScoredCandidate(contact, profile, breakdown, config) ==
  [breakdown |-> breakdown,
   invoked |-> MatchersInvoked(contact, profile),
   match |-> [contact |-> contact,
              linkedInUrl |-> profile.url,
              profileName |-> profile.name,
              profileHeadline |-> profile.headline,
              profileCompany |-> profile.company,
              profileLocation |-> profile.location,
              score |-> breakdown.total,
              matchReasons |-> getMatchReasons(contact, profile, breakdown, config),
              confidenceLevel |-> getConfidenceLevel(breakdown.total)]]

\* the loop of matchContact over the profiles, in input order
ScoreCandidates(contact, profileList, config) ==
  AsArray([k \in 1..Len(profileList) |->
             ScoredCandidate(contact, profileList[k],
                             scoreMatch(contact, profileList[k], config), config)])

\* the comparator of an ascending sort
CompareMatches_Ascending(a, b) == a.score - b.score

\* the comparator (a, b) => b.score - a.score
CompareMatches(a, b) == b.score - a.score

RECURSIVE InsertSorted_TiesFirst(_, _)
\* an insertion that puts m before the elements it ties with
InsertSorted_TiesFirst(sorted, m) ==
  IF sorted = <<>> THEN <<m>>
  ELSE IF Head(sorted).score > m.score
       THEN <<Head(sorted)>> \o InsertSorted_TiesFirst(Tail(sorted), m)
       ELSE <<m>> \o sorted

RECURSIVE InsertSorted(_, _)
\* m goes after every element that does not sort after it
InsertSorted(sorted, m) ==
  IF sorted = <<>> THEN <<m>>
  ELSE IF CompareMatches(Head(sorted), m) <= 0
       THEN <<Head(sorted)>> \o InsertSorted(Tail(sorted), m)
       ELSE <<m>> \o sorted

RECURSIVE SortMatches(_)
\* Array.prototype.sort with CompareMatches: a stable sort (ECMAScript 2019)
SortMatches(ms) ==
  IF ms = <<>> THEN <<>>
  ELSE InsertSorted(SortMatches(SubSeq(ms, 1, Len(ms) - 1)), ms[Len(ms)])

\* only the candidates that scored above 0 are pushed
PushedMatches_Positive(candidates) ==
  KeepAt([k \in 1..Len(candidates) |-> candidates[k].match],
         {k \in 1..Len(candidates) : candidates[k].match.score > 0})

\* the matches array of matchContact after its loop
PushedMatches(candidates) ==
  AsArray([k \in 1..Len(candidates) |-> candidates[k].match])

(***************************************************************************)
(* Inputs: the contacts, candidate profiles and configurations the matcher *)
(* is run on                                                               *)
(***************************************************************************)
JohnDoe == <<"J", "o", "h", "n", " ", "D", "o", "e">>

WilliamSmith == <<"W", "i", "l", "l", "i", "a", "m", " ", "S", "m", "i", "t", "h">>

BillSmith == <<"B", "i", "l", "l", " ", "S", "m", "i", "t", "h">>

Smith == <<"S", "m", "i", "t", "h">>

MaryPoe == <<"M", "a", "r", "y", " ", "P", "o", "e">>

EmailJ == <<"j", "@", "a", "c", "m", "e", ".", "c", "o", "m">>

EmailJDUpper == <<"J", "D", "@", "A", "c", "m", "e", ".", "c", "o", "m">>

EmailJD == <<"j", "d", "@", "a", "c", "m", "e", ".", "c", "o", "m">>

EmailAl == <<"a", "l", "@", "A", "C", "M", "E", ".", "c", "o", "m">>

EmailZ == <<"z", "@", "c", "o", "r", "p", ".", "i", "o">>

AcmeCorp == <<"A", "c", "m", "e", " ", "C", "o", "r", "p">>

Apex == <<"A", "p", "e", "x">>

Zenith == <<"Z", "e", "n", "i", "t", "h">>

AustinTX == <<"A", "u", "s", "t", "i", "n", ",", " ", "T", "X">>

Berlin == <<"B", "e", "r", "l", "i", "n">>

Engineer == <<"E", "n", "g", "i", "n", "e", "e", "r">>

Nurse == <<"N", "u", "r", "s", "e">>

NoString == <<>>

Contact(fullName, emails, company, jobTitle, location) ==
  [fullName |-> fullName, emails |-> emails, company |-> company,
   jobTitle |-> jobTitle, location |-> location]

LinkedInProfile(url, name, email, company, location, headline) ==
  [url |-> url, name |-> name, email |-> email, company |-> company,
   location |-> location, headline |-> headline]

\* every field present; the second e-mail is the one the candidates share
ContactJohn == Contact(JohnDoe, <<EmailJ, EmailJDUpper>>, AcmeCorp, Engineer, AustinTX)

\* a name and nothing else
ContactWilliam == Contact(WilliamSmith, <<>>, NoString, NoString, NoString)

\* a one-word name, no e-mail
ContactSmith == Contact(Smith, <<>>, Zenith, Nurse, Berlin)

Contacts == {ContactJohn, ContactWilliam, ContactSmith}

\* the pool candidate lists are drawn from, in search-rank order
ProfilePool == <<
  LinkedInProfile("u1", JohnDoe, EmailJD, AcmeCorp, AustinTX, Engineer),
  LinkedInProfile("u2", JohnDoe, EmailAl, AcmeCorp, AustinTX, Engineer),
  LinkedInProfile("u3", BillSmith, NoString, NoString, NoString, NoString),
  LinkedInProfile("u4", MaryPoe, EmailZ, Apex, Berlin, Nurse),
  LinkedInProfile("u5", JohnDoe, EmailJD, NoString, NoString, NoString)
>>

\* the longest candidate list
MaxProfiles == 2

RECURSIVE ListsOfLength(_)
ListsOfLength(n) ==
  IF n = 0 THEN {<<>>}
  ELSE {Append(l, ProfilePool[k]) : l \in ListsOfLength(n - 1), k \in 1..Len(ProfilePool)}

ProfileLists == UNION {ListsOfLength(n) : n \in 0..MaxProfiles}

\* an odd e-mail weight, a fractional name weight, the edit-distance
\* algorithm, a zero name threshold
ConfigLevenshtein ==
  MatchingConfig(RInt(45), <<31, 2>>, RInt(15), RInt(10), RInt(5),
                 "levenshtein", Zero, <<3, 5>>)

\* a fractional e-mail weight and a zero name weight
ConfigFractional ==
  MatchingConfig(<<101, 2>>, Zero, RInt(15), RInt(15), RInt(5),
                 "jaro-winkler", <<7, 10>>, <<3, 5>>)

\* a negative location weight, as --location-weight -10 installs
ConfigNegative ==
  MatchingConfig(RInt(30), RInt(10), RInt(15), RInt(-10), RInt(5),
                 "jaro-winkler", <<7, 10>>, <<3, 5>>)

Configs == {DEFAULT_MATCHING_CONFIG, ConfigLevenshtein, ConfigFractional, ConfigNegative}

\* the fields of CLIOptions the application reads after parseCLIOptions;
\* matching is what configureMatcher makes of the matching options
CLIOptions(useCache, limit, minScore, dryRun, filter, matching) ==
  [useCache |-> useCache, limit |-> limit, minScore |-> minScore,
   dryRun |-> dryRun, filter |-> filter, matching |-> matching]

\* the options of a command line that sets none
DefaultOptions == CLIOptions(TRUE, 3, 40, FALSE, NoString, DEFAULT_MATCHING_CONFIG)

(***************************************************************************)
(* The matcher as a state machine                                          *)
(***************************************************************************)
VARIABLES
  config,         \* ContactMatcher.config
  defaultConfig,  \* the module-level object DEFAULT_MATCHING_CONFIG
  contact,        \* the contact the caller matches
  profiles,       \* the candidate list the caller supplies
  called,         \* has matchContact returned for the present arguments under
                  \* the present configuration
  scored,         \* that call's loop, in input order: each candidate's
                  \* ScoreBreakdown, the matchers invoked for it, its Match
  matches,        \* the list that call returned
  earlier,        \* a call the caller has kept: its arguments, the
                  \* configuration it ran under and the list it returned
  input1,         \* first argument of a direct call of a fuzzy.ts function
  input2,         \* second argument of that call
  output,         \* what that call returned
  options,        \* the CLIOptions PhoneToLinkedInApp.run is given
  pc,             \* where run stands
  contacts,       \* filteredContacts of run, contacts of searchAndMatchContacts
  processed,      \* the counter processed of searchAndMatchContacts
  found,          \* the local profiles of its loop body: undefined or an array
  cache,          \* the entries of CacheManager.cache, by key
  results,        \* the array results of searchAndMatchContacts
  report,         \* what generateReport has written
  events          \* the calls run has made on the cache and the searcher, and
                  \* its rate-limiting delays, in order

matcherVars ==
  <<config, defaultConfig, contact, profiles, called, scored, matches, earlier>>

functionVars == <<input1, input2, output>>

appVars ==
  <<options, pc, contacts, processed, found, cache, results, report, events>>

vars ==
  <<config, defaultConfig, contact, profiles, called, scored, matches, earlier,
    input1, input2, output,
    options, pc, contacts, processed, found, cache, results, report, events>>

\* nothing kept, nothing returned
NoCall == <<>>

\* the array-or-undefined value of the local profiles
Undefined == [defined |-> FALSE, value |-> <<>>]

Defined(array) == [defined |-> TRUE, value |-> array]

NoReport == <<>>

\* no PhoneToLinkedInApp is running
AppIdle ==
  /\ options = DefaultOptions
  /\ pc = "idle"
  /\ contacts = <<>>
  /\ processed = 0
  /\ found = Undefined
  /\ cache = <<>>
  /\ results = <<>>
  /\ report = NoReport
  /\ events = <<>>

\* new ContactMatcher(): the default configuration; the caller holds a
\* contact and the candidates found for it
Init ==
  /\ defaultConfig = DEFAULT_MATCHING_CONFIG
  /\ config = defaultConfig
  /\ contact \in Contacts
  /\ profiles \in ProfileLists
  /\ called = FALSE
  /\ scored = <<>>
  /\ matches = <<>>
  /\ earlier = NoCall
  /\ input1 = NoString
  /\ input2 = NoString
  /\ output = NoCall
  /\ AppIdle

\* ContactMatcher.setConfig(c); the caller lets go of the list the last
\* call returned
SetConfig(c) ==
  /\ config' = c
  /\ called' = FALSE
  /\ scored' = <<>>
  /\ matches' = <<>>
  /\ UNCHANGED <<defaultConfig, contact, profiles, earlier>>
  /\ UNCHANGED functionVars
  /\ UNCHANGED appVars

\* is the kept call one with the present arguments under the present
\* configuration
SameCall(kept) ==
  /\ kept # NoCall
  /\ kept.contact = contact
  /\ kept.profiles = profiles
  /\ kept.config = config

\* the kept call, with a note once a different call has run after it
NotedAfter(kept) ==
  IF kept = NoCall \/ SameCall(kept) THEN kept
  ELSE [kept EXCEPT !.between = TRUE]

\* matchContact raising a negative location weight of its configuration
\* to 0 before it scores
MatchContact_ClampingConfig ==
  /\ config' = [config EXCEPT !.weights.location = IF RLt(@, Zero) THEN Zero ELSE @]
  /\ scored' = ScoreCandidates(contact, profiles, config')
  /\ matches' = SortMatches(PushedMatches(scored'))
  /\ called' = TRUE
  /\ earlier' = NotedAfter(earlier)
  /\ UNCHANGED <<defaultConfig, contact, profiles>>
  /\ UNCHANGED functionVars
  /\ UNCHANGED appVars

\* matchContact pushing onto an array kept on the instance from call to call
MatchContact_KeptAcrossCalls ==
  /\ scored' = ScoreCandidates(contact, profiles, config)
  /\ matches' = SortMatches(AsArray(matches \o PushedMatches(scored')))
  /\ called' = TRUE
  /\ earlier' = NotedAfter(earlier)
  /\ UNCHANGED <<config, defaultConfig, contact, profiles>>
  /\ UNCHANGED functionVars
  /\ UNCHANGED appVars

\* ContactMatcher.matchContact(contact, profiles)
MatchContact ==
  /\ scored' = ScoreCandidates(contact, profiles, config)
  /\ matches' = SortMatches(PushedMatches(scored'))
  /\ called' = TRUE
  /\ earlier' = NotedAfter(earlier)
  /\ UNCHANGED <<config, defaultConfig, contact, profiles>>
  /\ UNCHANGED functionVars
  /\ UNCHANGED appVars

Next ==
  \/ \E c \in Configs : SetConfig(c)
  \/ MatchContact

Spec == Init /\ [][Next]_vars

(***************************************************************************)
(* One matcher called again and again, for changing contacts               *)
(***************************************************************************)
CallContacts == {ContactJohn, ContactWilliam}

CallProfilePool == <<ProfilePool[1], ProfilePool[3]>>

\* the longest candidate list of these calls
MaxCallProfiles == 2

RECURSIVE CallListsOfLength(_)
CallListsOfLength(n) ==
  IF n = 0 THEN {<<>>}
  ELSE {Append(l, CallProfilePool[k]) :
          l \in CallListsOfLength(n - 1), k \in 1..Len(CallProfilePool)}

CallProfileLists == UNION {CallListsOfLength(n) : n \in 0..MaxCallProfiles}

CallConfigs == {DEFAULT_MATCHING_CONFIG, ConfigLevenshtein}

InitCalls ==
  /\ defaultConfig = DEFAULT_MATCHING_CONFIG
  /\ config = defaultConfig
  /\ contact \in CallContacts
  /\ profiles \in CallProfileLists
  /\ called = FALSE
  /\ scored = <<>>
  /\ matches = <<>>
  /\ earlier = NoCall
  /\ input1 = NoString
  /\ input2 = NoString
  /\ output = NoCall
  /\ AppIdle

\* the caller turns to another contact and the candidates found for it
NewArguments(c, ps) ==
  /\ contact' = c
  /\ profiles' = ps
  /\ called' = FALSE
  /\ scored' = <<>>
  /\ matches' = <<>>
  /\ UNCHANGED <<config, defaultConfig, earlier>>
  /\ UNCHANGED functionVars
  /\ UNCHANGED appVars

\* the caller keeps the list matchContact has just returned
KeepResult ==
  /\ called
  /\ earlier = NoCall
  /\ earlier' = [contact |-> contact, profiles |-> profiles, config |-> config,
                 matches |-> matches, between |-> FALSE]
  /\ UNCHANGED <<config, defaultConfig, contact, profiles, called, scored, matches>>
  /\ UNCHANGED functionVars
  /\ UNCHANGED appVars

NextCalls ==
  \/ \E c \in CallConfigs : SetConfig(c)
  \/ MatchContact
  \/ \E c \in CallContacts, ps \in CallProfileLists : NewArguments(c, ps)
  \/ KeepResult

SpecCalls == InitCalls /\ [][NextCalls]_vars

(***************************************************************************)
(* The fuzzy.ts functions called directly                                  *)
(***************************************************************************)
IBM == <<"I", "B", "M">>

InternationalBusinessMachines ==
  <<"I", "n", "t", "e", "r", "n", "a", "t", "i", "o", "n", "a", "l", " ", "B", "u",
    "s", "i", "n", "e", "s", "s", " ", "M", "a", "c", "h", "i", "n", "e", "s">>

DoublyEscapedCompany ==
  <<"A", "T", "&", "a", "m", "p", ";", "a", "m", "p", ";", "T", " ", "I", "n", "c",
    ".">>

SF == <<"S", "F">>

SanFrancisco == <<"S", "a", "n", " ", "F", "r", "a", "n", "c", "i", "s", "c", "o">>

BayAreaMetro == <<"B", "a", "y", " ", "A", "r", "e", "a", " ", "M", "e", "t", "r", "o">>

GreaterBostonArea ==
  <<"G", "r", "e", "a", "t", "e", "r", " ", "B", "o", "s", "t", "o", "n", " ", "A",
    "r", "e", "a">>

SoftwareEngineer ==
  <<"S", "o", "f", "t", "w", "a", "r", "e", " ", "E", "n", "g", "i", "n", "e", "e",
    "r">>

SrEngineerComma == <<"S", "r", ".", " ", "E", "n", "g", "i", "n", "e", "e", "r", " ", ",">>

GlobalServices == <<"G", "l", "o", "b", "a", "l", " ", "S", "e", "r", "v", "i", "c", "e", "s">>

IncDot == <<"I", "n", "c", ".">>

AnnaWashington == <<"A", "n", "n", "a", " ", "W", "a", "s", "h", "i", "n", "g", "t", "o", "n">>

ZoeyWashingtan == <<"Z", "o", "e", "y", " ", "W", "a", "s", "h", "i", "n", "g", "t", "a", "n">>

JSmith == <<"J", ".", " ", "S", "m", "i", "t", "h">>

JohnSmith == <<"J", "o", "h", "n", " ", "S", "m", "i", "t", "h">>

Algorithms == {"jaro-winkler", "levenshtein"}

\* an abbreviation table as pairs <<abbreviation, full name>>
TablePairs(table) ==
  UNION {{<<entry[1], fn>> : fn \in Range(entry[2])} : entry \in Range(table)}

\* the pairs of a set, in either argument order
EitherOrder(pairs) == pairs \cup {<<pair[2], pair[1]>> : pair \in pairs}

\* the company names compared: every entry of the abbreviation table with
\* each of its full names, and names as a contact card spells them
CompanyPairs ==
  EitherOrder(TablePairs(COMPANY_ABBREVIATIONS)
              \cup {<<IBM, InternationalBusinessMachines>>,
                    <<DoublyEscapedCompany, AcmeCorp>>,
                    <<GlobalServices, Zenith>>, <<IncDot, AcmeCorp>>,
                    <<IncDot, GlobalServices>>})

\* the names compared
NamePairs ==
  EitherOrder({<<AnnaWashington, ZoeyWashingtan>>, <<JSmith, JohnSmith>>,
               <<WilliamSmith, BillSmith>>})

\* the locations compared
LocationPairs ==
  EitherOrder(TablePairs(LOCATION_ABBREVIATIONS)
              \cup {<<SF, SanFrancisco>>, <<BayAreaMetro, GreaterBostonArea>>,
                    <<AustinTX, Berlin>>})

\* the job titles compared
TitlePairs ==
  EitherOrder({<<Engineer, SoftwareEngineer>>, <<SrEngineerComma, Nurse>>})

InitFunctions ==
  /\ defaultConfig = DEFAULT_MATCHING_CONFIG
  /\ config = defaultConfig
  /\ contact = ContactWilliam
  /\ profiles = <<>>
  /\ called = FALSE
  /\ scored = <<>>
  /\ matches = <<>>
  /\ earlier = NoCall
  /\ \E pair \in CompanyPairs \cup LocationPairs \cup TitlePairs \cup NamePairs :
       input1 = pair[1] /\ input2 = pair[2]
  /\ output = NoCall
  /\ AppIdle

\* matchCompanies(input1, input2, algorithm)
MatchCompanies(algorithm) ==
  /\ <<input1, input2>> \in CompanyPairs
  /\ output' = [function |-> "matchCompanies", algorithm |-> algorithm,
                value |-> matchCompanies(input1, input2, algorithm)]
  /\ UNCHANGED <<input1, input2>>
  /\ UNCHANGED matcherVars
  /\ UNCHANGED appVars

\* matchLocations(input1, input2, algorithm)
MatchLocations(algorithm) ==
  /\ <<input1, input2>> \in LocationPairs
  /\ output' = [function |-> "matchLocations", algorithm |-> algorithm,
                value |-> matchLocations(input1, input2, algorithm)]
  /\ UNCHANGED <<input1, input2>>
  /\ UNCHANGED matcherVars
  /\ UNCHANGED appVars

\* normalizeCompanyName(input1), and normalizeCompanyName of what it returned
NormalizeCompanyName ==
  /\ <<input1, input2>> \in CompanyPairs
  /\ output' = [function |-> "normalizeCompanyName",
                value |-> normalizeCompanyName(input1),
                again |-> normalizeCompanyName(normalizeCompanyName(input1))]
  /\ UNCHANGED <<input1, input2>>
  /\ UNCHANGED matcherVars
  /\ UNCHANGED appVars

\* normalizeLocation(input1), and normalizeLocation of what it returned
NormalizeLocation ==
  /\ <<input1, input2>> \in LocationPairs
  /\ output' = [function |-> "normalizeLocation",
                value |-> normalizeLocation(input1),
                again |-> normalizeLocation(normalizeLocation(input1))]
  /\ UNCHANGED <<input1, input2>>
  /\ UNCHANGED matcherVars
  /\ UNCHANGED appVars

\* normalizeJobTitle(input1), and normalizeJobTitle of what it returned
NormalizeJobTitle ==
  /\ <<input1, input2>> \in TitlePairs
  /\ output' = [function |-> "normalizeJobTitle",
                value |-> normalizeJobTitle(input1),
                again |-> normalizeJobTitle(normalizeJobTitle(input1))]
  /\ UNCHANGED <<input1, input2>>
  /\ UNCHANGED matcherVars
  /\ UNCHANGED appVars

\* matchNames(input1, input2, algorithm)
MatchNames(algorithm) ==
  /\ <<input1, input2>> \in NamePairs
  /\ output' = [function |-> "matchNames", algorithm |-> algorithm,
                value |-> matchNames(input1, input2, algorithm)]
  /\ UNCHANGED <<input1, input2>>
  /\ UNCHANGED matcherVars
  /\ UNCHANGED appVars

\* the matcher's companyMatchScore(input1, input2) under its configuration
CompanyMatchScore ==
  /\ <<input1, input2>> \in CompanyPairs
  /\ output' = [function |-> "companyMatchScore", algorithm |-> config.algorithm,
                value |-> companyMatchScore(input1, input2, config)]
  /\ UNCHANGED <<input1, input2>>
  /\ UNCHANGED matcherVars
  /\ UNCHANGED appVars

NextFunctions ==
  \/ \E algorithm \in Algorithms : MatchCompanies(algorithm)
  \/ \E algorithm \in Algorithms : MatchLocations(algorithm)
  \/ NormalizeCompanyName
  \/ NormalizeLocation
  \/ NormalizeJobTitle
  \/ \E algorithm \in Algorithms : MatchNames(algorithm)
  \/ CompanyMatchScore

SpecFunctions == InitFunctions /\ [][NextFunctions]_vars

(***************************************************************************)
(* The application: PhoneToLinkedInApp.run (app.ts), the cache             *)
(* (cache-manager.ts) and the report (markdown.ts)                         *)
(***************************************************************************)
\* CacheManager.generateKey: the lower-cased key data; the MD5 digest of it
\* is taken as one-to-one, so the key data stand for their digest
generateKey(c) ==
  toLowerCase(c.fullName \o <<"-">> \o c.company \o <<"-">> \o c.location)

\* a cache that never has the entry
CacheGet_Miss(entries, c) == Undefined

\* CacheManager.get: the entry under the contact's key, or undefined
CacheGet(entries, c) ==
  IF generateKey(c) \in DOMAIN entries THEN Defined(entries[generateKey(c)])
  ELSE Undefined

\* CacheManager.set
CacheSet(entries, c, array) ==
  [k \in DOMAIN entries \cup {generateKey(c)} |->
     IF k = generateKey(c) THEN array ELSE entries[k]]

\* PhoneToLinkedInApp.filterContacts
filterContacts(list, filter) ==
  IF ~Truthy(filter) THEN list
  ELSE KeepAt(list, {k \in 1..Len(list) :
                       includes(toLowerCase(list[k].fullName), toLowerCase(filter))})

\* matches.filter((match) => match.score >= options.minScore)
FilterByMinScore(ms, minScore) ==
  KeepAt(ms, {k \in 1..Len(ms) : ms[k].score >= minScore})

\* Array.prototype.slice(0, end): a negative end counts from the end of
\* the array
SliceFromStart(array, end) ==
  SubSeq(array, 1, IF end < 0 THEN Max2(Len(array) + end, 0)
                   ELSE Min2(end, Len(array)))

\* what searchAndMatchContacts keeps of the list matchContact returned
KeptMatches(ms, opts) ==
  SliceFromStart(FilterByMinScore(ms, opts.minScore), opts.limit)

\* the number of matches buildContactSection prints for a contact
ReportCap == 3

\* the figure buildMatchEntry prints after the score
ScoreScale == 100

\* MarkdownGenerator.buildMatchEntry: the header line of a match
buildMatchEntry(match, index) ==
  [index |-> index, profileName |-> match.profileName,
   linkedInUrl |-> match.linkedInUrl, score |-> match.score,
   outOf |-> ScoreScale, confidenceLevel |-> match.confidenceLevel]

\* MarkdownGenerator.buildContactSection: the contact and its match entries
buildContactSection(c, ms) ==
  [fullName |-> c.fullName,
   entries |-> AsArray([i \in 1..Min2(Len(ms), ReportCap) |-> buildMatchEntry(ms[i], i)])]

\* MarkdownGenerator.buildMarkdownContent: one section per result
buildMarkdownContent(contactsWithMatches) ==
  AsArray([k \in 1..Len(contactsWithMatches) |->
             buildContactSection(contactsWithMatches[k].contact,
                                 contactsWithMatches[k].matches)])

\* a call or a delay run has made, for the contact at position index
Event(type, index, key, ok) == [type |-> type, index |-> index, key |-> key, ok |-> ok]

JohnDoeUpper == <<"J", "O", "H", "N", " ", "D", "O", "E">>

\* the card of John Doe again, spelled in capitals, from a second file
ContactJohnUpper == Contact(JohnDoeUpper, <<EmailJ>>, AcmeCorp, NoString, AustinTX)

AppContacts == <<ContactJohn, ContactJohnUpper, ContactWilliam>>

\* the longest list of contacts the input files hold
MaxContacts == 2

RECURSIVE ContactListsOfLength(_)
ContactListsOfLength(n) ==
  IF n = 0 THEN {<<>>}
  ELSE {Append(l, AppContacts[k]) :
          l \in ContactListsOfLength(n - 1), k \in 1..Len(AppContacts)}

ContactLists == UNION {ContactListsOfLength(n) : n \in 0..MaxContacts}

\* what a search may return: nothing, one profile, four profiles
SearchResults ==
  {<<>>, <<ProfilePool[3]>>,
   <<ProfilePool[1], ProfilePool[2], ProfilePool[5], ProfilePool[4]>>}

\* the command lines run is started with
AppOptions ==
  {DefaultOptions,
   CLIOptions(FALSE, 3, 40, FALSE, NoString, DEFAULT_MATCHING_CONFIG),
   CLIOptions(TRUE, 3, 40, TRUE, NoString, DEFAULT_MATCHING_CONFIG),
   CLIOptions(TRUE, 3, 40, FALSE, Smith, DEFAULT_MATCHING_CONFIG),
   CLIOptions(TRUE, 5, 0, FALSE, NoString, DEFAULT_MATCHING_CONFIG),
   CLIOptions(TRUE, 1, 0, FALSE, NoString, ConfigLevenshtein),
   CLIOptions(FALSE, -1, 0, FALSE, NoString, DEFAULT_MATCHING_CONFIG)}

\* new PhoneToLinkedInApp(), and run(options) entered
InitApp ==
  /\ defaultConfig = DEFAULT_MATCHING_CONFIG
  /\ config = defaultConfig
  /\ contact = ContactWilliam
  /\ profiles = <<>>
  /\ called = FALSE
  /\ scored = <<>>
  /\ matches = <<>>
  /\ earlier = NoCall
  /\ input1 = NoString
  /\ input2 = NoString
  /\ output = NoCall
  /\ options \in AppOptions
  /\ pc = "configure"
  /\ contacts = <<>>
  /\ processed = 0
  /\ found = Undefined
  /\ cache = <<>>
  /\ results = <<>>
  /\ report = NoReport
  /\ events = <<>>

\* configureMatcher(options)
ConfigureMatcher ==
  /\ pc = "configure"
  /\ config' = options.matching
  /\ pc' = "parse"
  /\ UNCHANGED <<defaultConfig, contact, profiles, called, scored, matches, earlier>>
  /\ UNCHANGED functionVars
  /\ UNCHANGED <<options, contacts, processed, found, cache, results, report, events>>

\* parseContacts returns list; filterContacts; the two early returns
ParseContacts(list) ==
  /\ pc = "parse"
  /\ contacts' = filterContacts(list, options.filter)
  /\ pc' = IF Len(contacts') = 0 \/ options.dryRun THEN "finally" ELSE "loop"
  /\ UNCHANGED matcherVars
  /\ UNCHANGED functionVars
  /\ UNCHANGED <<options, processed, found, cache, results, report, events>>

\* parseContacts rethrows what parser.parse threw
ParseContactsThrows ==
  /\ pc = "parse"
  /\ pc' = "finallyThrown"
  /\ UNCHANGED matcherVars
  /\ UNCHANGED functionVars
  /\ UNCHANGED <<options, contacts, processed, found, cache, results, report, events>>

\* the head of the loop body: processed++, then the cache is consulted
NextContact ==
  /\ pc = "loop"
  /\ processed < Len(contacts)
  /\ processed' = processed + 1
  /\ contact' = contacts[processed']
  /\ found' = IF options.useCache THEN CacheGet(cache, contact') ELSE Undefined
  /\ events' = IF options.useCache
               THEN Append(events, Event("get", processed', generateKey(contact'), TRUE))
               ELSE events
  /\ pc' = IF found'.defined THEN "match" ELSE "search"
  /\ called' = FALSE
  /\ UNCHANGED <<config, defaultConfig, profiles, scored, matches, earlier>>
  /\ UNCHANGED functionVars
  /\ UNCHANGED <<options, contacts, cache, results, report>>

\* searcher.searchLinkedInProfiles(contact) returns array
SearchReturns(array) ==
  /\ pc = "search"
  /\ found' = Defined(array)
  /\ cache' = IF options.useCache THEN CacheSet(cache, contact, array) ELSE cache
  /\ events' = events
               \o <<Event("search", processed, generateKey(contact), TRUE)>>
               \o IF options.useCache
                  THEN <<Event("set", processed, generateKey(contact), TRUE)>>
                  ELSE <<>>
  /\ pc' = "match"
  /\ UNCHANGED matcherVars
  /\ UNCHANGED functionVars
  /\ UNCHANGED <<options, contacts, processed, results, report>>

\* the search throws and nothing catches it inside the loop
SearchThrows_Uncaught ==
  /\ pc = "search"
  /\ events' = Append(events, Event("search", processed, generateKey(contact), FALSE))
  /\ pc' = "finallyThrown"
  /\ UNCHANGED matcherVars
  /\ UNCHANGED functionVars
  /\ UNCHANGED <<options, contacts, processed, found, cache, results, report>>

\* searcher.searchLinkedInProfiles(contact) throws: the catch clause
SearchThrows ==
  /\ pc = "search"
  /\ found' = Defined(<<>>)
  /\ events' = Append(events, Event("search", processed, generateKey(contact), FALSE))
  /\ pc' = "match"
  /\ UNCHANGED matcherVars
  /\ UNCHANGED functionVars
  /\ UNCHANGED <<options, contacts, processed, cache, results, report>>

\* the rest of the loop body: matchContact, the minimum score, the limit,
\* results.push, and the delay if (processed < contacts.length && !profiles)
MatchAndKeep ==
  /\ pc = "match"
  /\ profiles' = found.value
  /\ scored' = ScoreCandidates(contact, profiles', config)
  /\ matches' = SortMatches(PushedMatches(scored'))
  /\ called' = TRUE
  /\ results' = Append(results, [contact |-> contact,
                                 matches |-> KeptMatches(matches', options)])
  /\ events' = IF processed < Len(contacts) /\ ~found.defined
               THEN Append(events, Event("delay", processed, generateKey(contact), TRUE))
               ELSE events
  /\ pc' = "loop"
  /\ UNCHANGED <<config, defaultConfig, contact, earlier>>
  /\ UNCHANGED functionVars
  /\ UNCHANGED <<options, contacts, processed, found, cache, report>>

\* searchAndMatchContacts returns; generateReport writes the report
GenerateReport ==
  /\ pc = "loop"
  /\ processed = Len(contacts)
  /\ report' = buildMarkdownContent(results)
  /\ pc' = "finally"
  /\ UNCHANGED matcherVars
  /\ UNCHANGED functionVars
  /\ UNCHANGED <<options, contacts, processed, found, cache, results, events>>

\* searchAndMatchContacts returns; writeFileSync throws
GenerateReportThrows ==
  /\ pc = "loop"
  /\ processed = Len(contacts)
  /\ pc' = "finallyThrown"
  /\ UNCHANGED matcherVars
  /\ UNCHANGED functionVars
  /\ UNCHANGED <<options, contacts, processed, found, cache, results, report, events>>

\* run with the call of searcher.close() at the end of the try block
Close_OnReturnOnly ==
  /\ pc \in {"finally", "finallyThrown"}
  /\ events' = IF pc = "finally"
               THEN Append(events, Event("close", processed, NoString, TRUE))
               ELSE events
  /\ pc' = IF pc = "finally" THEN "returned" ELSE "rejected"
  /\ UNCHANGED matcherVars
  /\ UNCHANGED functionVars
  /\ UNCHANGED <<options, contacts, processed, found, cache, results, report>>

\* the finally clause of run: searcher.close(), then run returns or rejects
Close ==
  /\ pc \in {"finally", "finallyThrown"}
  /\ events' = Append(events, Event("close", processed, NoString, TRUE))
  /\ pc' = IF pc = "finally" THEN "returned" ELSE "rejected"
  /\ UNCHANGED matcherVars
  /\ UNCHANGED functionVars
  /\ UNCHANGED <<options, contacts, processed, found, cache, results, report>>

NextApp ==
  \/ ConfigureMatcher
  \/ \E list \in ContactLists : ParseContacts(list)
  \/ ParseContactsThrows
  \/ NextContact
  \/ \E array \in SearchResults : SearchReturns(array)
  \/ SearchThrows
  \/ MatchAndKeep
  \/ GenerateReport
  \/ GenerateReportThrows
  \/ Close

SpecApp == InitApp /\ [][NextApp]_vars

(***************************************************************************)
(* The searcher: LinkedInSearcher.searchLinkedInProfiles (cli.ts)          *)
(***************************************************************************)
\* what a search result gives of a profile: url, name and headline
FoundProfile(url, name, headline) ==
  LinkedInProfile(url, name, NoString, NoString, NoString, headline)

FoundJohn == FoundProfile("u1", JohnDoe, Engineer)

\* the same page found again, under another title
FoundJohnAgain == FoundProfile("u1", JohnDoeUpper, NoString)

FoundBill == FoundProfile("u3", BillSmith, NoString)

\* what the two searches give for one query: executeGoogleCustomSearch
\* and executeGoogleSearch
QueryOutcome(api, web) == [api |-> api, web |-> web]

QueryOutcomes ==
  {QueryOutcome(<<>>, <<>>),
   QueryOutcome(<<>>, <<FoundJohn, FoundBill>>),
   QueryOutcome(<<FoundJohnAgain>>, <<FoundBill, FoundJohn>>),
   QueryOutcome(<<>>, <<FoundJohnAgain, FoundJohn>>),
   QueryOutcome(<<FoundBill>>, <<>>),
   QueryOutcome(<<>>, <<FoundBill, FoundJohnAgain>>)}

\* the most queries a search is run with here; buildSearchQueries returns
\* at most 3
MaxQueries == 2

RECURSIVE QueryListsOfLength(_)
QueryListsOfLength(n) ==
  IF n = 0 THEN {<<>>}
  ELSE {Append(l, q) : l \in QueryListsOfLength(n - 1), q \in QueryOutcomes}

QueryLists == UNION {QueryListsOfLength(n) : n \in 0..MaxQueries}

\* what scrapeLinkedInProfile does for a url: it throws, or returns the
\* fields it could read; a field it could not read is not set
Scraped(throws, name, headline, location, company) ==
  [throws |-> throws, name |-> name, headline |-> headline,
   location |-> location, company |-> company]

FoundUrls == {"u1", "u3"}

Scrapes ==
  {[u \in FoundUrls |-> Scraped(TRUE, NoString, NoString, NoString, NoString)],
   [u \in FoundUrls |-> Scraped(FALSE, MaryPoe, Nurse, NoString, NoString)],
   [u \in FoundUrls |-> Scraped(u = "u3", NoString, NoString, Berlin, Apex)]}

\* the profiles of one round of the loop over the queries
QueryProfiles(q, credentials) ==
  IF credentials /\ Len(q.api) > 0 THEN q.api ELSE q.web

Urls(list) == {list[k].url : k \in 1..Len(list)}

\* the profiles of a round pushed whether seen or not
AddAll(allProfiles, batch) == allProfiles \o batch

RECURSIVE AddUnseen(_, _)
\* "Deduplicate profiles": seenUrls holds the urls of allProfiles
AddUnseen(allProfiles, batch) ==
  IF batch = <<>> THEN allProfiles
  ELSE AddUnseen(IF Head(batch).url \in Urls(allProfiles) THEN allProfiles
                 ELSE Append(allProfiles, Head(batch)),
                 Tail(batch))

RECURSIVE CollectProfiles(_, _, _)
\* the loop over the queries, from allProfiles on
CollectProfiles(allProfiles, queries, credentials) ==
  IF queries = <<>> THEN allProfiles
  ELSE CollectProfiles(AddUnseen(allProfiles, QueryProfiles(Head(queries), credentials)),
                       Tail(queries), credentials)

\* the number of profiles enrichProfilesWithLinkedInData scrapes
ScrapeCap == 20

\* {...profile, ...scrapedData}, or the profile as found when scraping threw
EnrichedProfile(profile, scraped) ==
  IF scraped.throws THEN profile
  ELSE [profile EXCEPT
          !.name = IF Truthy(scraped.name) THEN scraped.name ELSE @,
          !.headline = IF Truthy(scraped.headline) THEN scraped.headline ELSE @,
          !.location = IF Truthy(scraped.location) THEN scraped.location ELSE @,
          !.company = IF Truthy(scraped.company) THEN scraped.company ELSE @]

enrichProfilesWithLinkedInData(list, scrape) ==
  AsArray([k \in 1..Min2(Len(list), ScrapeCap) |->
             EnrichedProfile(list[k], scrape[list[k].url])])

searchLinkedInProfiles(queries, scrape, credentials) ==
  enrichProfilesWithLinkedInData(CollectProfiles(<<>>, queries, credentials), scrape)

InitSearcher ==
  /\ defaultConfig = DEFAULT_MATCHING_CONFIG
  /\ config = defaultConfig
  /\ contact = ContactWilliam
  /\ profiles = <<>>
  /\ called = FALSE
  /\ scored = <<>>
  /\ matches = <<>>
  /\ earlier = NoCall
  /\ input1 \in QueryLists
  /\ input2 \in Scrapes
  /\ output = NoCall
  /\ AppIdle

\* searchLinkedInProfiles returns, the queries giving input1 and the
\* profile pages input2
SearchLinkedInProfiles(credentials) ==
  /\ output' = [function |-> "searchLinkedInProfiles", credentials |-> credentials,
                value |-> searchLinkedInProfiles(input1, input2, credentials)]
  /\ UNCHANGED <<input1, input2>>
  /\ UNCHANGED matcherVars
  /\ UNCHANGED appVars

NextSearcher == \E credentials \in BOOLEAN : SearchLinkedInProfiles(credentials)

SpecSearcher == InitSearcher /\ [][NextSearcher]_vars

(***************************************************************************)
(* Properties of scoring: totals and breakdowns                            *)
(***************************************************************************)
\* the candidates of the call on record, by position in the input list
Candidates == 1..Len(scored)

\* email + name + company + location + jobTitle weight
WeightSum(c) ==
  RAdd(RAdd(RAdd(RAdd(c.weights.email, c.weights.name), c.weights.company),
            c.weights.location), c.weights.jobTitle)

\* email + name + company + location + jobTitle of a breakdown
ComponentSum(b) ==
  RAdd(RAdd(RAdd(RAdd(b.email, b.name), b.company), b.location), b.jobTitle)

NonNegativeWeights(c) ==
  /\ RGe(c.weights.email, Zero)
  /\ RGe(c.weights.name, Zero)
  /\ RGe(c.weights.company, Zero)
  /\ RGe(c.weights.location, Zero)
  /\ RGe(c.weights.jobTitle, Zero)

\* a threshold is a similarity cutoff in [0, 1]
ThresholdInRange(t) == RGe(t, Zero) /\ RLe(t, One)

\* a configuration the specification calls valid
ValidConfig(c) ==
  /\ NonNegativeWeights(c)
  /\ ThresholdInRange(c.nameThreshold)
  /\ ThresholdInRange(c.companyThreshold)

\* C1 (as amended): under a configuration whose five weights are all >= 0,
\* every total scoreMatch produces is at least 0 and at most the sum of the
\* five weights rounded to the nearest integer; so it is at most the sum
\* itself when the sum is a whole number, and at most 110 with the default
\* weights.
C1_TotalWithinRoundedWeightSum ==
  (called /\ NonNegativeWeights(config)) =>
    \A k \in Candidates :
      /\ scored[k].breakdown.total >= 0
      /\ scored[k].breakdown.total <= MathRound(WeightSum(config))
      /\ WeightSum(config)[2] = 1 =>
           scored[k].breakdown.total <= WeightSum(config)[1]
      /\ config = DEFAULT_MATCHING_CONFIG => scored[k].breakdown.total <= 110

\* C1 as stated: under a configuration whose five weights are all >= 0,
\* every total is at least 0 and at most the sum of the five weights.
C1_TotalWithinWeightSum ==
  (called /\ NonNegativeWeights(config)) =>
    \A k \in Candidates :
      /\ scored[k].breakdown.total >= 0
      /\ RLe(RInt(scored[k].breakdown.total), WeightSum(config))

\* a pair that earns every point, under weights that sum to a fraction: the
\* total is the sum rounded up
C1_Witness ==
  /\ called
  /\ NonNegativeWeights(config)
  /\ WeightSum(config)[2] # 1
  /\ \E k \in Candidates :
       /\ ComponentSum(scored[k].breakdown) = WeightSum(config)
       /\ scored[k].breakdown.total = MathRound(WeightSum(config))

\* C2 as stated: every ScoreBreakdown has its total equal to the rounded
\* sum of its five components, every component at least 0 and every
\* component at most the weight configured for it.
C2_BreakdownInvariant ==
  called =>
    \A k \in Candidates :
      /\ scored[k].breakdown.total = MathRound(ComponentSum(scored[k].breakdown))
      /\ RGe(scored[k].breakdown.email, Zero)
      /\ RGe(scored[k].breakdown.name, Zero)
      /\ RGe(scored[k].breakdown.company, Zero)
      /\ RGe(scored[k].breakdown.location, Zero)
      /\ RGe(scored[k].breakdown.jobTitle, Zero)
      /\ RLe(scored[k].breakdown.email, config.weights.email)
      /\ RLe(scored[k].breakdown.name, config.weights.name)
      /\ RLe(scored[k].breakdown.company, config.weights.company)
      /\ RLe(scored[k].breakdown.location, config.weights.location)
      /\ RLe(scored[k].breakdown.jobTitle, config.weights.jobTitle)

(***************************************************************************)
(* Properties of the returned list: order, ties, completeness, bands       *)
(***************************************************************************)
\* C3: the list matchContact returns is ordered by score descending: of two
\* adjacent matches the earlier one's score is at least the later one's.
C3_SortedByScoreDescending ==
  called =>
    \A i \in 1..(Len(matches) - 1) : matches[i].score >= matches[i + 1].score

\* a call whose second candidate outscored its first, and leads the result
C3_Witness ==
  /\ called
  /\ Len(matches) = 2
  /\ scored[1].match.score < scored[2].match.score
  /\ matches[1].score > matches[2].score

\* the matches of a list that have the score s, in the order of the list
WithScore(ms, s) == KeepAt(ms, {i \in 1..Len(ms) : ms[i].score = s})

\* C4: candidates with equal total score appear in the returned list in the
\* relative order in which the input list supplied them.
C4_TiesKeepInputOrder ==
  called =>
    \A k \in Candidates :
      WithScore(matches, scored[k].match.score) =
        [i \in 1..Cardinality({j \in Candidates :
                                 scored[j].match.score = scored[k].match.score}) |->
           scored[Nth({j \in Candidates :
                         scored[j].match.score = scored[k].match.score}, i)].match]

\* two different candidates tie on a score above zero
C4_Witness ==
  /\ called
  /\ Len(matches) = 2
  /\ matches[1].score = matches[2].score
  /\ matches[1].score > 0
  /\ matches[1].linkedInUrl # matches[2].linkedInUrl
  /\ matches[1].linkedInUrl = profiles[1].url

\* how many times u occurs in a sequence of urls
Occurs(urls, u) == Cardinality({i \in 1..Len(urls) : urls[i] = u})

\* C5: matchContact drops and adds no candidate: the result is as long as
\* the input list, and every url is the linkedInUrl of as many matches as
\* there are candidates with it in the input, whatever their scores; an
\* empty input list gives an empty result.
C5_NoCandidateDroppedOrAdded ==
  called =>
    /\ Len(matches) = Len(profiles)
    /\ \A u \in {profiles[k].url : k \in 1..Len(profiles)}
                \cup {matches[i].linkedInUrl : i \in 1..Len(matches)} :
         Occurs([i \in 1..Len(matches) |-> matches[i].linkedInUrl], u) =
           Occurs([k \in 1..Len(profiles) |-> profiles[k].url], u)
    /\ profiles = <<>> => matches = <<>>

\* a candidate given twice, scoring nothing both times, is returned twice
C5_Witness ==
  /\ called
  /\ Len(profiles) = 2
  /\ profiles[1].url = profiles[2].url
  /\ Len(matches) = 2
  /\ matches[1].score = 0
  /\ matches[2].score = 0

\* C6: the confidence band of a match is a function of its total score
\* alone, with inclusive lower bounds: 80 and more is Very High, 60..79 is
\* High, 40..59 is Medium, 20..39 is Low and anything less is Very Low,
\* whatever weights and thresholds are configured.
C6_ConfidenceBands ==
  called =>
    \A i \in 1..Len(matches) :
      /\ matches[i].score >= 80 <=> matches[i].confidenceLevel = "Very High"
      /\ (matches[i].score >= 60 /\ matches[i].score <= 79)
           <=> matches[i].confidenceLevel = "High"
      /\ (matches[i].score >= 40 /\ matches[i].score <= 59)
           <=> matches[i].confidenceLevel = "Medium"
      /\ (matches[i].score >= 20 /\ matches[i].score <= 39)
           <=> matches[i].confidenceLevel = "Low"
      /\ matches[i].score < 20 <=> matches[i].confidenceLevel = "Very Low"

\* under a configuration other than the default, one list holds a match
\* on a lower bound of a band and a match below every band
C6_Witness ==
  /\ called
  /\ config # DEFAULT_MATCHING_CONFIG
  /\ \E i \in 1..Len(matches) :
       /\ matches[i].score \in {80, 60, 40, 20}
       /\ matches[i].confidenceLevel \in {"Very High", "High", "Medium", "Low"}
  /\ \E i \in 1..Len(matches) :
       /\ matches[i].score < 20
       /\ matches[i].confidenceLevel = "Very Low"

(***************************************************************************)
(* Properties of the components: e-mail, thresholds, ungated attributes    *)
(***************************************************************************)
\* some e-mail of the contact equals the candidate's, ignoring case
SharesExactEmail(c, p) ==
  /\ p.email # <<>>
  /\ \E k \in 1..Len(c.emails) : toLowerCase(c.emails[k]) = toLowerCase(p.email)

\* the text after the '@' of an e-mail address that has one '@', in lower
\* case (domain names do not distinguish case)
DomainText(e) ==
  toLowerCase(SubSeq(e, Least(Occurrences(e, "@")) + 1, Len(e)))

\* some e-mail of the contact has the domain of the candidate's
SharesEmailDomain(c, p) ==
  /\ Cardinality(Occurrences(p.email, "@")) = 1
  /\ \E k \in 1..Len(c.emails) :
       /\ Cardinality(Occurrences(c.emails[k], "@")) = 1
       /\ DomainText(c.emails[k]) = DomainText(p.email)

\* C7: the e-mail component is the full e-mail weight if any e-mail of the
\* contact equals the candidate's ignoring case, wherever it stands in the
\* contact's list; otherwise half the e-mail weight if some e-mail of the
\* contact has the candidate's domain; otherwise 0, also when the contact
\* or the candidate has no e-mail.
C7_EmailComponent ==
  called =>
    \A k \in Candidates :
      scored[k].breakdown.email =
        IF SharesExactEmail(contact, profiles[k]) THEN config.weights.email
        ELSE IF SharesEmailDomain(contact, profiles[k])
             THEN RMul(config.weights.email, <<1, 2>>)
             ELSE Zero

\* the contact's first e-mail has only the candidate's domain, its second
\* equals the candidate's up to case: the component is the full weight
C7_Witness ==
  /\ called
  /\ Len(contact.emails) = 2
  /\ \E k \in Candidates :
       /\ toLowerCase(contact.emails[1]) # toLowerCase(profiles[k].email)
       /\ DomainText(contact.emails[1]) = DomainText(profiles[k].email)
       /\ contact.emails[2] # profiles[k].email
       /\ toLowerCase(contact.emails[2]) = toLowerCase(profiles[k].email)
       /\ scored[k].breakdown.email = config.weights.email
       /\ RGt(config.weights.email, Zero)

\* two candidates alike in all but url and e-mail
AlikeButEmail(p, q) ==
  /\ p.name = q.name
  /\ p.company = q.company
  /\ p.location = q.location
  /\ p.headline = q.headline

\* candidate i shares an exact e-mail with the contact, candidate j is
\* otherwise identical and shares only an e-mail domain
ExactAndDomainPair(i, j) ==
  /\ AlikeButEmail(profiles[i], profiles[j])
  /\ SharesExactEmail(contact, profiles[i])
  /\ ~SharesExactEmail(contact, profiles[j])
  /\ SharesEmailDomain(contact, profiles[j])

\* is the number a whole number
IsWhole(a) == a[2] = 1

\* C8 (as amended): of two pairs identical except that one shares an exact
\* e-mail and the other only the e-mail domain, under a valid configuration
\* the e-mail component of the first exceeds that of the second by exactly
\* half the e-mail weight and the other components are equal; the totals,
\* being rounded, differ by half the e-mail weight rounded down or up, which
\* is exactly half the e-mail weight when that is a whole number (25 with
\* the default weight of 50).
C8_ExactEmailLeadsByHalfWeight ==
  (called /\ ValidConfig(config)) =>
    \A i, j \in Candidates :
      ExactAndDomainPair(i, j) =>
        /\ RSub(scored[i].breakdown.email, scored[j].breakdown.email)
             = RMul(config.weights.email, <<1, 2>>)
        /\ scored[i].breakdown.name = scored[j].breakdown.name
        /\ scored[i].breakdown.company = scored[j].breakdown.company
        /\ scored[i].breakdown.location = scored[j].breakdown.location
        /\ scored[i].breakdown.jobTitle = scored[j].breakdown.jobTitle
        /\ RGt(RInt(scored[i].breakdown.total - scored[j].breakdown.total + 1),
               RMul(config.weights.email, <<1, 2>>))
        /\ RLt(RInt(scored[i].breakdown.total - scored[j].breakdown.total - 1),
               RMul(config.weights.email, <<1, 2>>))
        /\ IsWhole(RMul(config.weights.email, <<1, 2>>)) =>
             RInt(scored[i].breakdown.total - scored[j].breakdown.total)
               = RMul(config.weights.email, <<1, 2>>)
        /\ config = DEFAULT_MATCHING_CONFIG =>
             scored[i].breakdown.total - scored[j].breakdown.total = 25

\* C8 as stated: of two pairs identical except that one shares an exact
\* e-mail and the other only the e-mail domain, the total of the first
\* exceeds the total of the second by exactly half the e-mail weight, under
\* every valid configuration.
C8_TotalsDifferByHalfWeight ==
  (called /\ ValidConfig(config)) =>
    \A i, j \in Candidates :
      ExactAndDomainPair(i, j) =>
        RInt(scored[i].breakdown.total - scored[j].breakdown.total)
          = RMul(config.weights.email, <<1, 2>>)

\* such a pair under a whole odd e-mail weight: the totals differ by a
\* whole number next to half the weight, not by half the weight
C8_Witness ==
  /\ called
  /\ ValidConfig(config)
  /\ IsWhole(config.weights.email)
  /\ ~IsWhole(RMul(config.weights.email, <<1, 2>>))
  /\ \E i, j \in Candidates :
       /\ ExactAndDomainPair(i, j)
       /\ RInt(scored[i].breakdown.total - scored[j].breakdown.total)
            # RMul(config.weights.email, <<1, 2>>)

\* both the contact and the candidate have a name
BothNamed(c, p) == c.fullName # <<>> /\ p.name # <<>>

\* both the contact and the candidate have a company
BothHaveCompany(c, p) == c.company # <<>> /\ p.company # <<>>

\* both the contact and the candidate have a location
BothHaveLocation(c, p) == c.location # <<>> /\ p.location # <<>>

\* the contact has a job title and the candidate a headline
BothHaveTitle(c, p) == c.jobTitle # <<>> /\ p.headline # <<>>

\* the component a threshold gates: 0 below the threshold, else the
\* similarity times the weight
Gated(similarity, threshold, weight) ==
  IF similarity[1] * threshold[2] < threshold[1] * similarity[2] THEN Zero
  ELSE RMul(similarity, weight)

\* C9 (as amended): the name component is 0 whenever the name matcher's
\* similarity is below nameThreshold and is similarity x nameWeight when the
\* similarity is at or above it, which is a positive amount exactly when
\* the similarity and the weight are both above 0; likewise the company
\* component, computed only when contact and candidate both have a company,
\* is 0 below companyThreshold and similarity x companyWeight otherwise.
C9_ThresholdGating ==
  called =>
    \A k \in Candidates :
      /\ BothNamed(contact, profiles[k]) =>
           /\ scored[k].breakdown.name =
                Gated(matchNames(contact.fullName, profiles[k].name, config.algorithm),
                      config.nameThreshold, config.weights.name)
           /\ RGt(scored[k].breakdown.name, Zero) <=>
                /\ RGe(matchNames(contact.fullName, profiles[k].name, config.algorithm),
                       config.nameThreshold)
                /\ RGt(matchNames(contact.fullName, profiles[k].name, config.algorithm),
                       Zero)
                /\ RGt(config.weights.name, Zero)
      /\ BothHaveCompany(contact, profiles[k]) =>
           scored[k].breakdown.company =
             Gated(matchCompanies(contact.company, profiles[k].company, config.algorithm),
                   config.companyThreshold, config.weights.company)
      /\ ~BothHaveCompany(contact, profiles[k]) =>
           scored[k].breakdown.company = Zero

\* C9 as stated: the name component is 0 whenever the name similarity is
\* below nameThreshold and is similarity x nameWeight, a positive amount,
\* when the similarity is at or above it; the company component, computed
\* only when both sides have a company, is 0 below companyThreshold and
\* similarity x companyWeight otherwise.
C9_GatedAndPositive ==
  (called /\ ValidConfig(config)) =>
    \A k \in Candidates :
      /\ BothNamed(contact, profiles[k]) =>
           /\ scored[k].breakdown.name =
                Gated(matchNames(contact.fullName, profiles[k].name, config.algorithm),
                      config.nameThreshold, config.weights.name)
           /\ RGe(matchNames(contact.fullName, profiles[k].name, config.algorithm),
                  config.nameThreshold)
                => RGt(scored[k].breakdown.name, Zero)
      /\ BothHaveCompany(contact, profiles[k]) =>
           scored[k].breakdown.company =
             Gated(matchCompanies(contact.company, profiles[k].company, config.algorithm),
                   config.companyThreshold, config.weights.company)
      /\ ~BothHaveCompany(contact, profiles[k]) =>
           scored[k].breakdown.company = Zero

\* one call scores a name whose similarity is exactly nameThreshold, above
\* 0, and a company whose similarity is below companyThreshold
C9_Witness ==
  /\ called
  /\ RGt(config.nameThreshold, Zero)
  /\ \E k \in Candidates :
       /\ BothNamed(contact, profiles[k])
       /\ matchNames(contact.fullName, profiles[k].name, config.algorithm)
            = config.nameThreshold
       /\ scored[k].breakdown.name = RMul(config.nameThreshold, config.weights.name)
       /\ RGt(scored[k].breakdown.name, Zero)
  /\ \E k \in Candidates :
       /\ BothHaveCompany(contact, profiles[k])
       /\ RGt(matchCompanies(contact.company, profiles[k].company, config.algorithm),
              Zero)
       /\ RLt(matchCompanies(contact.company, profiles[k].company, config.algorithm),
              config.companyThreshold)
       /\ RGt(config.weights.company, Zero)
       /\ scored[k].breakdown.company = Zero

\* C10: the location and job-title components have no threshold gate: when
\* contact and candidate both have the field, the component is the
\* matcher's similarity x the component's weight, however low the
\* similarity; when either lacks the field, the matcher is not invoked and
\* the component is 0.
C10_UngatedLocationAndTitle ==
  called =>
    \A k \in Candidates :
      /\ BothHaveLocation(contact, profiles[k]) =>
           scored[k].breakdown.location =
             RMul(matchLocations(contact.location, profiles[k].location, config.algorithm),
                  config.weights.location)
      /\ ~BothHaveLocation(contact, profiles[k]) =>
           /\ "location" \notin scored[k].invoked
           /\ scored[k].breakdown.location = Zero
      /\ BothHaveTitle(contact, profiles[k]) =>
           scored[k].breakdown.jobTitle =
             RMul(matchJobTitles(contact.jobTitle, profiles[k].headline, config.algorithm),
                  config.weights.jobTitle)
      /\ ~BothHaveTitle(contact, profiles[k]) =>
           /\ "jobTitle" \notin scored[k].invoked
           /\ scored[k].breakdown.jobTitle = Zero

\* a location similarity and a title similarity below both thresholds of
\* the configuration still earn points, next to a candidate without either
\* field
C10_Witness ==
  /\ called
  /\ \E k \in Candidates :
       /\ BothHaveLocation(contact, profiles[k])
       /\ BothHaveTitle(contact, profiles[k])
       /\ RLt(matchLocations(contact.location, profiles[k].location, config.algorithm),
              config.companyThreshold)
       /\ RLt(matchJobTitles(contact.jobTitle, profiles[k].headline, config.algorithm),
              config.companyThreshold)
       /\ RGt(scored[k].breakdown.location, Zero)
       /\ RGt(scored[k].breakdown.jobTitle, Zero)
  /\ \E k \in Candidates :
       /\ profiles[k].location = <<>>
       /\ profiles[k].headline = <<>>
       /\ scored[k].invoked \cap {"location", "jobTitle"} = {}

(***************************************************************************)
(* Properties of the match reasons                                         *)
(***************************************************************************)
\* the five scoring components, in the order of the ScoreBreakdown
Components == <<"email", "name", "company", "location", "jobTitle">>

\* the place of a reason in the fixed order: the five components, then the
\* total-score summary
ReasonRank(reason) ==
  IF reason.component = "summary" THEN Len(Components) + 1
  ELSE Least({r \in 1..Len(Components) : Components[r] = reason.component})

\* is the reason one of a component or the total-score summary
IsRanked(reason) ==
  reason.component = "summary" \/ \E r \in 1..Len(Components) : Components[r] = reason.component

\* C11: in every reasons list getMatchReasons produces, the reasons stand in
\* the order email, name, company, location, job title, total-score summary,
\* so that no reason of a later component precedes one of an earlier
\* component, and a component has a reason only if it contributed a
\* positive amount.
C11_ReasonsInFixedOrder ==
  called =>
    \A k \in Candidates :
      /\ \A i, j \in 1..Len(scored[k].match.matchReasons) :
           (/\ i < j
            /\ IsRanked(scored[k].match.matchReasons[i])
            /\ IsRanked(scored[k].match.matchReasons[j]))
             => ReasonRank(scored[k].match.matchReasons[i])
                  < ReasonRank(scored[k].match.matchReasons[j])
      /\ \A i \in 1..Len(scored[k].match.matchReasons) :
           \A r \in 1..Len(Components) :
             scored[k].match.matchReasons[i].component = Components[r]
               => RGt(scored[k].breakdown[Components[r]], Zero)

\* one match whose reasons speak of all five components and end with the
\* summary, beside one whose reasons skip a component between two others
C11_Witness ==
  /\ called
  /\ \E k \in Candidates : Len(scored[k].match.matchReasons) = Len(Components) + 1
  /\ \E k \in Candidates :
       \E i \in 1..Len(scored[k].match.matchReasons) - 1 :
         /\ IsRanked(scored[k].match.matchReasons[i + 1])
         /\ ReasonRank(scored[k].match.matchReasons[i + 1])
              > ReasonRank(scored[k].match.matchReasons[i]) + 1

\* the last reason of a list
LastReason(reasons) == reasons[Len(reasons)]

\* C12 as stated: every reasons list produced for a match ends with a
\* total-score summary line, the list produced when no component contributed
\* any points included.
C12_EndsWithSummary ==
  called =>
    \A k \in Candidates :
      /\ Len(scored[k].match.matchReasons) > 0
      /\ LastReason(scored[k].match.matchReasons).component = "summary"

\* did some component contribute points to the breakdown
SomeContribution(breakdown) ==
  \E r \in 1..Len(Components) : RGt(breakdown[Components[r]], Zero)

\* the low-confidence placeholder reasons of a list, by position
Placeholders(reasons) ==
  {i \in 1..Len(reasons) : reasons[i].component = "placeholder"}

\* C13: when none of the five components contributed points to a match its
\* reasons contain exactly one low-confidence placeholder reason, and when
\* at least one component contributed the placeholder does not appear.
C13_PlaceholderIffNoContribution ==
  called =>
    \A k \in Candidates :
      Cardinality(Placeholders(scored[k].match.matchReasons))
        = IF SomeContribution(scored[k].breakdown) THEN 0 ELSE 1

\* one call returning a match without any contribution, which has the
\* placeholder, and a match with a contribution and a total under 20, which
\* has none
C13_Witness ==
  /\ called
  /\ \E k \in Candidates :
       /\ ~SomeContribution(scored[k].breakdown)
       /\ Placeholders(scored[k].match.matchReasons) = {1}
  /\ \E k \in Candidates :
       /\ SomeContribution(scored[k].breakdown)
       /\ scored[k].breakdown.total < LowScore
       /\ Placeholders(scored[k].match.matchReasons) = {}

C15_InvalidConfigRejected == called => ValidConfig(config)

\* C20: no matchContact call changes the configuration of the matcher or
\* DEFAULT_MATCHING_CONFIG; the configuration in effect changes only through
\* setConfig, which installs its whole argument and scores nothing; and all
\* candidates of one matchContact call are scored under the one configuration
\* in effect.
C20_ConfigReadOnlyWhileMatching ==
  [][/\ defaultConfig' = defaultConfig
     /\ called' => config' = config
     /\ config' # config => (config' \in Configs /\ ~called' /\ scored' = <<>>)
     /\ called' =>
          \A k \in 1..Len(scored') :
            scored'[k].breakdown = scoreMatch(contact', profiles'[k], config')]_vars

\* a call of two candidates under a configuration other than the default,
\* both scored under it, one of them otherwise than the default would score
\* it, with DEFAULT_MATCHING_CONFIG as it was
C20_Witness ==
  /\ called
  /\ config # defaultConfig
  /\ defaultConfig = DEFAULT_MATCHING_CONFIG
  /\ Len(scored) >= 2
  /\ \A k \in Candidates :
       scored[k].breakdown = scoreMatch(contact, profiles[k], config)
  /\ \E k \in Candidates :
       scored[k].breakdown # scoreMatch(contact, profiles[k], defaultConfig)

\* the whitespace-separated tokens of a name as matchNames sees it
NameTokens(name) == SplitWs(trim(toLowerCase(name)))

\* a contact and a candidate with nothing but names, whose first tokens are
\* nickname-equivalent and whose last tokens are identical
NicknamePair(c, p) ==
  /\ c.emails = <<>> /\ c.company = NoString
  /\ c.jobTitle = NoString /\ c.location = NoString
  /\ p.email = NoString /\ p.company = NoString
  /\ p.location = NoString /\ p.headline = NoString
  /\ Len(NameTokens(c.fullName)) >= 2
  /\ Len(NameTokens(p.name)) >= 2
  /\ areNameVariations(NameTokens(c.fullName)[1], NameTokens(p.name)[1])
  /\ Last(NameTokens(c.fullName)) = Last(NameTokens(p.name))

\* C18 (as amended): for a contact and a candidate with nothing but names,
\* nickname-equivalent first tokens and identical last tokens, under a
\* configuration whose name threshold is at most 1.0, the name component
\* equals the full name weight and the total is the name weight rounded to
\* the nearest integer, so the name weight itself when that is whole; under
\* the default configuration the total is 30 and the confidence band 'Low'.
C18_NicknamePairEarnsNameWeight ==
  (called /\ RLe(config.nameThreshold, One)) =>
    \A k \in Candidates :
      NicknamePair(contact, profiles[k]) =>
        /\ scored[k].breakdown.name = config.weights.name
        /\ scored[k].breakdown.total = MathRound(config.weights.name)
        /\ IsWhole(config.weights.name) =>
             RInt(scored[k].breakdown.total) = config.weights.name
        /\ config = DEFAULT_MATCHING_CONFIG =>
             /\ scored[k].breakdown.total = 30
             /\ scored[k].match.confidenceLevel = "Low"

\* C18 as stated: for such a pair the name component equals the full name
\* weight, the total equals the name weight, and under the default
\* configuration the confidence band is 'Low'.
C18_TotalEqualsNameWeight ==
  called =>
    \A k \in Candidates :
      NicknamePair(contact, profiles[k]) =>
        /\ scored[k].breakdown.name = config.weights.name
        /\ RInt(scored[k].breakdown.total) = config.weights.name
        /\ config = DEFAULT_MATCHING_CONFIG =>
             scored[k].match.confidenceLevel = "Low"

\* William Smith against Bill Smith under a fractional name weight: the
\* component is the weight, the total the weight rounded
C18_Witness ==
  /\ called
  /\ RLe(config.nameThreshold, One)
  /\ ~IsWhole(config.weights.name)
  /\ \E k \in Candidates :
       /\ NicknamePair(contact, profiles[k])
       /\ NameTokens(contact.fullName)[1] # NameTokens(profiles[k].name)[1]
       /\ scored[k].breakdown.name = config.weights.name
       /\ scored[k].breakdown.total = MathRound(config.weights.name)

(***************************************************************************)
(* Properties of the attribute matchers and of normalization               *)
(***************************************************************************)
\* C16 as stated: for every entry of the organization abbreviation table,
\* matchCompanies of the abbreviation and any of its full names, in either
\* argument order, is 1.0; so is matchCompanies('IBM', 'International
\* Business Machines').
C16_CompanyAbbreviationsMatch ==
  (/\ output # NoCall
   /\ output.function = "matchCompanies"
   /\ <<input1, input2>> \in
        EitherOrder(TablePairs(COMPANY_ABBREVIATIONS)
                    \cup {<<IBM, InternationalBusinessMachines>>}))
    => output.value = One

\* C17 as stated: for every entry of the city abbreviation table,
\* matchLocations of the abbreviation and any of its full names, in either
\* argument order, is 1.0; so is matchLocations('SF', 'San Francisco').
C17_LocationAbbreviationsMatch ==
  (/\ output # NoCall
   /\ output.function = "matchLocations"
   /\ <<input1, input2>> \in
        EitherOrder(TablePairs(LOCATION_ABBREVIATIONS) \cup {<<SF, SanFrancisco>>}))
    => output.value = One

\* C19 as stated: normalization is idempotent: normalizeCompanyName,
\* normalizeLocation and normalizeJobTitle each return, for what they have
\* returned for any input string, that same string again.
C19_NormalizationIdempotent ==
  (/\ output # NoCall
   /\ output.function \in {"normalizeCompanyName", "normalizeLocation",
                           "normalizeJobTitle"})
    => output.again = output.value

\* the similarity of the last tokens of the two names matchNames was given
LastNameSimilarity ==
  stringSimilarity(Last(SplitWs(trim(toLowerCase(input1)))),
                   Last(SplitWs(trim(toLowerCase(input2)))), output.algorithm)

\* C24 as stated: whenever the similarity of the two last tokens is at
\* least 0.9, exactly 0.9 included, matchNames returns at least 0.7,
\* however the first tokens compare.
C24_LastNameCreditFromBar ==
  (/\ output # NoCall
   /\ output.function = "matchNames"
   /\ RGe(LastNameSimilarity, LastNameBar))
    => RGe(output.value, LastNameCredit)

\* either name normalizes to the empty string
SomeEmptyCompany ==
  normalizeCompanyName(input1) = <<>> \/ normalizeCompanyName(input2) = <<>>

\* C30: when either company name normalizes to the empty string,
\* matchCompanies returns at least 0.95 whatever the other name is, and
\* under the default configuration companyMatchScore passes the 0.6
\* threshold and is at least 95% of the company weight.
C30_EmptyCompanyMatchesAll ==
  (output # NoCall /\ SomeEmptyCompany)
    => /\ output.function = "matchCompanies"
            => RGe(output.value, CompanyContainment)
       /\ output.function = "companyMatchScore"
            => /\ RGe(CompanyContainment, config.companyThreshold)
               /\ RGe(output.value, RMul(CompanyContainment, config.weights.company))

\* matchCompanies and companyMatchScore have compared a name that
\* normalizes to the empty string with one that does not
C30_Witness ==
  /\ output # NoCall
  /\ output.function \in {"matchCompanies", "companyMatchScore"}
  /\ normalizeCompanyName(input1) = <<>>
  /\ normalizeCompanyName(input2) # <<>>
  /\ config = DEFAULT_MATCHING_CONFIG
  /\ output.value \in {CompanyContainment,
                        RMul(CompanyContainment, config.weights.company)}

(***************************************************************************)
(* Properties of the application run                                       *)
(***************************************************************************)
\* the positions of the events of a type
EventsOf(type) == {i \in 1..Len(events) : events[i].type = type}

\* searchAndMatchContacts stands at its return statement, or has returned
LoopDone == pc = "loop" /\ processed = Len(contacts)

C22_ReportListsAllRetained ==
  report # NoReport =>
    /\ Len(report) = Len(results)
    /\ \A k \in 1..Len(report) :
         /\ Len(report[k].entries) = Len(results[k].matches)
         /\ \A i \in 1..Len(report[k].entries) :
              /\ i <= Len(results[k].matches)
                   => /\ report[k].entries[i].linkedInUrl
                           = results[k].matches[i].linkedInUrl
                      /\ report[k].entries[i].score = results[k].matches[i].score
              /\ i > 1 => report[k].entries[i - 1].score >= report[k].entries[i].score

Qualifying == FilterByMinScore(matches, options.minScore)

\* what the application has kept of that list
Kept == results[Len(results)].matches

\* C25 as stated: the matches kept for a contact are exactly the first
\* options.limit, in the order matchContact returned them, of its matches
\* with score >= options.minScore: none is below the minimum score, at
\* most options.limit are kept, and no dropped match that meets the
\* minimum score has a higher score than a kept one.
C25_KeptAreTopLimit ==
  (pc = "loop" /\ called) =>
    /\ \A i \in 1..Len(Kept) : Kept[i].score >= options.minScore
    /\ Len(Kept) <= Max2(options.limit, 0)
    /\ Kept = SubSeq(Qualifying, 1, Len(Kept))
    /\ Len(Kept) = Min2(Max2(options.limit, 0), Len(Qualifying))

\* C26: in every execution of run, by return or by exception,
\* searcher.close() has been called when run returns or rejects, and no
\* search starts after it.
C26_SearcherClosedOnEveryPath ==
  /\ pc \in {"returned", "rejected"} => EventsOf("close") # {}
  /\ \A i \in EventsOf("close") :
       /\ \A j \in EventsOf("search") : j < i
       /\ pc \notin {"loop", "search", "match"}

\* run has rejected because the report could not be written, after a
\* search, and the searcher was closed
C26_Witness ==
  /\ pc = "rejected"
  /\ EventsOf("search") # {}
  /\ events[Len(events)].type = "close"

\* C27: searchAndMatchContacts returns one entry per contact, in input
\* order; a contact whose search threw has an empty match list and
\* nothing is cached for it, and the loop goes on to the later contacts:
\* run never leaves the loop before the last contact.
C27_OneResultPerContact ==
  /\ Len(results) <= Len(contacts)
  /\ \A k \in 1..Len(results) : results[k].contact = contacts[k]
  /\ LoopDone => Len(results) = Len(contacts)
  /\ \A i \in EventsOf("search") :
       ~events[i].ok =>
         /\ \A s \in EventsOf("set") : events[s].index # events[i].index
         /\ events[i].index <= Len(results)
              => results[events[i].index].matches = <<>>
  /\ pc \in {"finallyThrown", "rejected"} => processed \in {0, Len(contacts)}

\* the search for the first of two contacts threw, and the second contact
\* was searched and has matches
C27_Witness ==
  /\ LoopDone
  /\ Len(results) = 2
  /\ \E i \in EventsOf("search") : events[i].index = 1 /\ ~events[i].ok
  /\ results[1].matches = <<>>
  /\ results[2].matches # <<>>

\* C28 as stated: when a contact that is not the last had its profiles
\* from a fresh search, the rate-limiting delay is waited before the next
\* contact is started.
C28_DelayAfterFreshSearch ==
  \A i \in EventsOf("search") :
    (events[i].ok /\ events[i].index < Len(contacts) /\ processed > events[i].index)
      => \E d \in EventsOf("delay") : d > i /\ events[d].index = events[i].index

(***************************************************************************)
(* Properties of the searcher                                              *)
(***************************************************************************)
RECURSIVE Discovered(_, _)
\* every profile the queries gave, in the order it was discovered
Discovered(queries, credentials) ==
  IF queries = <<>> THEN <<>>
  ELSE QueryProfiles(Head(queries), credentials)
       \o Discovered(Tail(queries), credentials)

\* the positions of Discovered at which a url is discovered first
FirstDiscoveries(list) ==
  {k \in 1..Len(list) : \A m \in 1..(k - 1) : list[m].url # list[k].url}

\* C29: the list searchLinkedInProfiles returns has pairwise distinct urls:
\* it holds, in discovery order, the first profile discovered for each
\* url (the first ScrapeCap of them), and enrichment leaves the url, and
\* what the page did not give, as found.
C29_DistinctUrlsFirstDiscovered ==
  (output # NoCall /\ output.function = "searchLinkedInProfiles") =>
    LET list == Discovered(input1, output.credentials)
        firsts == FirstDiscoveries(list)
    IN /\ \A i \in 1..Len(output.value) : \A j \in 1..Len(output.value) :
            i # j => output.value[i].url # output.value[j].url
       /\ Len(output.value) = Min2(Cardinality(firsts), ScrapeCap)
       /\ \A i \in 1..Len(output.value) :
            /\ output.value[i].url = list[Nth(firsts, i)].url
            /\ (input2[output.value[i].url].throws
                \/ ~Truthy(input2[output.value[i].url].name))
                 => output.value[i].name = list[Nth(firsts, i)].name

\* one url was discovered twice, under two names, another url between or
\* after them, and the first discovery is the one returned
C29_Witness ==
  /\ output # NoCall
  /\ output.function = "searchLinkedInProfiles"
  /\ Len(output.value) = 2
  /\ Len(Discovered(input1, output.credentials)) >= 4
  /\ \E k \in 1..Len(output.value) :
       /\ output.value[k].url = "u1"
       /\ output.value[k].name = JohnDoeUpper
  /\ \E m \in 1..Len(Discovered(input1, output.credentials)) :
       Discovered(input1, output.credentials)[m] = FoundJohn

====
